---- MODULE Spec2Model ----
(***************************************************************************)
(* Model of the tooeybot agent loop (runtime/tooeybot): the task store     *)
(* (tasks.py), the cycle log (cycle.py CycleHistory), the budget ledger    *)
(* (budgets.py), the stuck detector (reflection.py), Agent.tick /          *)
(* Agent._run_cycles / Agent.run (agent.py) and the curiosity admitter     *)
(* (curiosity.py, described in spec.md 4.9).                               *)
(*                                                                         *)
(* Files are modelled by their parsed content: inbox.md is the sequence of *)
(* task blocks, active.md is one block or the "no active task" marker,     *)
(* completed/ and blocked/ are the sets of report file names,              *)
(* history/<id>.jsonl is a sequence of lines, budgets.json is the          *)
(* "current" dictionary or absent.                                         *)
(***************************************************************************)
EXTENDS Integers, Sequences, FiniteSets, TLC

\* ---------------------------------------------------------------- bounds
MaxActivations == 3      \* activate_task calls explored
MaxCycles == 5           \* ReasoningCycle.run calls explored
MaxCrashes == 2          \* process kills explored (SpecCrash only)

\* configuration (config.yaml, section budgets); small values of the limits
max_iterations_per_task == 3
max_consecutive_failures == 2
max_actions_without_progress == 3
max_task_duration_minutes == 1

\* configuration (config.yaml, section curiosity); small values of the limits
max_curiosity_tasks_per_day == 2
max_curiosity_depth == 2

\* the clock explored: days, and seconds of a day
MaxDay == 1
MaxTime == 1
\* blocks created through the web form that the inbox holds at a time
MaxWebTasks == 1
\* times the scheduler passes from one process to the other
MaxSwitches == 3
\* proposals in one call of evaluate_proposals
MaxProposals == 3
\* distinct words of a description, and pending tasks in one call of is_duplicate
MaxTokens == 10
MaxExisting == 2

\* StuckDetector.__init__ default
window_size == 5

\* BudgetConfig defaults
default_max_iterations_per_task == 20
default_max_consecutive_failures == 3
default_max_actions_without_progress == 5
default_max_task_duration_minutes == 30
default_max_active_tasks == 10
default_max_pending_tasks == 50

\* CuriosityConfig defaults
default_max_tasks_per_day == 5
default_max_depth == 2
max_proposals_per_cycle == 2

\* datetime.max, later than every deadline of Deadlines
datetime_max == 9999
\* ExecutionConfig.command_timeout, in seconds
command_timeout == 300
\* CuriosityEvaluator(min_value_threshold=0.6), in tenths
min_value_threshold == 6
\* Observation.to_dict keeps output[:2000]
output_limit == 2000

\* inputs: the task blocks the user wrote to the inbox, and their priorities
Tasks == {1, 2}
\* the ids create_task can generate for origin=curiosity, one per clock value
CuriosityIds == 10..(10 + (MaxDay + 1) * (MaxTime + 1) - 1)
\* the task_id values a user types into the form of POST /tasks/create
WebTaskIds == {3}
TaskIds == Tasks \cup CuriosityIds \cup WebTaskIds
Priorities == {"high", "low"}
Descriptions == {"text", ""}     \* the description of a block, possibly empty
Deadlines == {1, 2}               \* the deadline lines a block can have
MaxElapsed == max_task_duration_minutes + 1   \* minutes of task age explored

\* a task block: the header lines deadline, origin, parent_task and
\* curiosity_depth are optional; depth_line = -1 when the block has no
\* curiosity_depth line, deadline = 0 when it has no deadline line
NoTask == [task_id |-> 0, priority |-> "none", notes |-> 0, desc |-> "", parses |-> TRUE,
           origin |-> "user", parent_task |-> 0, depth_line |-> -1, deadline |-> 0]
NoResult == [success |-> TRUE, task_processed |-> 0, decision |-> "none",
             message |-> "No pending tasks", cycles_run |-> 0]
\* no TickResult yet: the tick() call is running
Running == [success |-> TRUE, task_processed |-> 0, decision |-> "none",
            message |-> "running", cycles_run |-> 0]
\* no TickResult at all: the tick() call raised
Raised == [success |-> FALSE, task_processed |-> 0, decision |-> "none",
           message |-> "raised", cycles_run |-> 0]
NoPend == [decision |-> "none", message |-> "none"]

VARIABLES
    inbox,        \* tasks/inbox.md: sequence of blocks; parses = FALSE for a
                  \* block whose header TASK_PATTERN no longer matches
    active,       \* tasks/active.md: a task block or NoTask
    completed,    \* tasks/completed/<id>.md
    blocked,      \* tasks/blocked/<id>.md
    histfile,     \* tasks/history/<id>.jsonl: lines per task id
    budgetFile,   \* runtime/budgets.json: <<>> when absent, else <<current>>
    b,            \* AgentBudgets runtime counters of the process
    pc,           \* position of the process inside tick()
    task,         \* local `task` of tick/_run_cycles
    history,      \* local `history` of _run_cycles
    cycle_num,    \* local `cycle_num`
    cycles_run,   \* local `cycles_run`
    cur,          \* local `result` of cycle.run(), <<>> when none
    pend,         \* decision and message of the TickResult being returned
    result,       \* the TickResult the last tick() call returned
    nact,         \* per task: number of activate_task calls so far
    ncycles,      \* number of ReasoningCycle.run calls so far
    crashes,      \* number of process kills so far
    saved_for,    \* <<task_id, cycle_id>> of the cycle the last save_state followed
    env,          \* what the LM and the executor can answer in this run
    running,      \* Agent.running, the flag of the run() loop
    shutdown_events, \* number of "shutdown" records in the event log
    events,       \* number of records the tick() call appended to the event log
    clock,        \* the host clock: [day, time], time in seconds of the day
    created,      \* per day: number of origin=curiosity tasks created
    task_minutes, \* minutes since reset_for_new_task ran for the active task
    other,        \* the second process on the agent home: its local state
                  \* while the first one is the one taking steps
    call          \* a call of a function of the curiosity evaluator or of the
                  \* cycle state: [op, args, ret, done]

\* the loop flag, the shutdown records, the clock, the curiosity count, the
\* age of the active task, the process that is not taking steps and the
\* function call
xvars == <<running, shutdown_events, clock, created, task_minutes, other, call>>

vars == <<inbox, active, completed, blocked, histfile, budgetFile, b, pc, task,
          history, cycle_num, cycles_run, cur, pend, result, nact, ncycles, crashes,
          saved_for, env, running, shutdown_events, events, clock, created,
          task_minutes, other, call>>

\* ------------------------------------------------------------ task store
\* TaskParser.parse_inbox: priority_order.get(t.priority, 99)
priority_rank(p) ==
    CASE p = "high" -> 0
      [] p = "medium" -> 1
      [] p = "low" -> 2
      [] OTHER -> 99

\* t.deadline or datetime.max
deadline_or_max(t) == IF t.deadline = 0 THEN datetime_max ELSE t.deadline

\* the sort key of parse_inbox, compared as Python compares tuples:
\* (priority_order.get(t.priority, 99), t.deadline or datetime.max)
key_le(t, u) ==
    \/ priority_rank(t.priority) < priority_rank(u.priority)
    \/ /\ priority_rank(t.priority) = priority_rank(u.priority)
       /\ deadline_or_max(t) <= deadline_or_max(u)

RECURSIVE insert_sorted(_, _)
\* list.sort is stable: a block goes after every block of key <= its own
insert_sorted(sorted, t) ==
    IF sorted = <<>> THEN <<t>>
    ELSE IF key_le(Head(sorted), t)
         THEN <<Head(sorted)>> \o insert_sorted(Tail(sorted), t)
         ELSE <<t>> \o sorted

RECURSIVE sort_tasks(_)
sort_tasks(blocks) ==
    IF blocks = <<>> THEN <<>>
    ELSE insert_sorted(sort_tasks(SubSeq(blocks, 1, Len(blocks) - 1)),
                       blocks[Len(blocks)])

\* TaskParser.parse_inbox: the blocks TASK_PATTERN matches, sorted by priority
parse_inbox(content) == sort_tasks(SelectSeq(content, LAMBDA r : r.parses))

\* TaskManager.get_pending_tasks: parse_inbox of inbox.md
get_pending_tasks(inb) == parse_inbox(inb)

\* variant: get_active_task that never finds an active task
get_active_task_none(act) == NoTask

\* TaskManager.get_active_task: the block of active.md, NoTask for the marker
get_active_task(act) == act

\* TaskManager.activate_task, second write: content.replace(raw_content, "")
\* removes every occurrence of the block from inbox.md
remove_from_inbox(inb, t) == SelectSeq(inb, LAMBDA r : r # t)

\* Task.curiosity_depth as parse_inbox sets it:
\* int(curiosity_depth_str) if curiosity_depth_str else 0
curiosity_depth(t) == IF t.depth_line = -1 THEN 0 ELSE t.depth_line

\* TaskManager._generate_task_id: origin.value[:3].upper() + "-" +
\* now.strftime("%Y%m%d%H%M%S"); "CUR-<day><time>" is 10 + the clock value
generate_task_id(origin, now) ==
    (IF origin = "curiosity" THEN 10 ELSE 0) + now.day * (MaxTime + 1) + now.time

\* TaskManager.create_task with task_id=None: the block appended to inbox.md
\* has the lines task_id, priority, origin (unless user) and parent_task; it
\* has no curiosity_depth line
create_task(inb, description, origin, priority, parent_task_id, now) ==
    Append(inb, [task_id |-> generate_task_id(origin, now), priority |-> priority,
                 notes |-> 0, desc |-> description, parses |-> TRUE,
                 origin |-> origin, parent_task |-> parent_task_id,
                 depth_line |-> -1, deadline |-> 0])

\* TaskManager.pause_task: raw_content.replace("---\n" + description,
\* "---\n[PAUSED: reason]\n\n" + description) puts the note in front of the
\* description; with an empty description it replaces every "---\n" of the
\* block, the opening one too, and the header no longer parses
paused_content(t) ==
    IF t.desc = "" THEN [t EXCEPT !.notes = @ + 1, !.parses = FALSE]
    ELSE [t EXCEPT !.notes = @ + 1]

\* ---------------------------------------------------------- budget ledger
\* the limits of config.yaml used unless a run says otherwise
SmallLimits == [max_iterations_per_task |-> max_iterations_per_task,
                max_consecutive_failures |-> max_consecutive_failures,
                max_actions_without_progress |-> max_actions_without_progress,
                max_task_duration_minutes |-> max_task_duration_minutes,
                max_active_tasks |-> default_max_active_tasks,
                max_pending_tasks |-> default_max_pending_tasks,
                curiosity_enabled |-> TRUE,
                max_curiosity_tasks_per_day |-> max_curiosity_tasks_per_day,
                max_curiosity_depth |-> max_curiosity_depth]

\* BudgetConfig() and CuriosityConfig() without a config.yaml entry
DefaultLimits == [max_iterations_per_task |-> default_max_iterations_per_task,
                  max_consecutive_failures |-> default_max_consecutive_failures,
                  max_actions_without_progress |-> default_max_actions_without_progress,
                  max_task_duration_minutes |-> default_max_task_duration_minutes,
                  max_active_tasks |-> default_max_active_tasks,
                  max_pending_tasks |-> default_max_pending_tasks,
                  curiosity_enabled |-> TRUE,
                  max_curiosity_tasks_per_day |-> default_max_tasks_per_day,
                  max_curiosity_depth |-> default_max_depth]

\* AgentBudgets(...) as Agent.__init__ builds it from the configuration: the
\* limits, and the runtime counters at their defaults (task_started_at None:
\* task_age -1, curiosity_tasks_date None: -1)
FreshBudgets(limits) ==
    [limits |-> limits,
     current_task_iterations |-> 0, current_task_failures |-> 0,
     actions_without_progress |-> 0, task_age |-> -1,
     curiosity_tasks_today |-> 0, curiosity_tasks_date |-> -1]

\* variant: a reset of the iteration counter and the age only
reset_for_new_task_iterations_only(bb) ==
    [bb EXCEPT !.current_task_iterations = 0, !.task_age = 0]

\* AgentBudgets.reset_for_new_task; task_started_at = now, so the age is 0
reset_for_new_task(bb) ==
    [bb EXCEPT !.current_task_iterations = 0, !.current_task_failures = 0,
               !.actions_without_progress = 0, !.task_age = 0]

\* variant: record_iteration that never resets the failure counter
record_iteration_noreset(bb, made_progress, had_failure) ==
    [bb EXCEPT !.current_task_iterations = @ + 1,
               !.current_task_failures = IF had_failure THEN @ + 1 ELSE @,
               !.actions_without_progress = IF made_progress THEN 0 ELSE @ + 1]

\* variant: record_iteration that leaves the iteration counter alone
record_iteration_nocount(bb, made_progress, had_failure) ==
    [bb EXCEPT !.current_task_failures = IF had_failure THEN @ + 1 ELSE 0,
               !.actions_without_progress = IF made_progress THEN 0 ELSE @ + 1]

\* AgentBudgets.record_iteration
record_iteration(bb, made_progress, had_failure) ==
    [bb EXCEPT !.current_task_iterations = @ + 1,
               !.current_task_failures = IF had_failure THEN @ + 1 ELSE 0,
               !.actions_without_progress = IF made_progress THEN 0 ELSE @ + 1]

\* variant: the iteration limit tested with > instead of >=
check_can_continue_gt(bb) ==
    IF bb.current_task_iterations > bb.limits.max_iterations_per_task THEN "iterations"
    ELSE IF bb.current_task_failures >= bb.limits.max_consecutive_failures THEN "failures"
    ELSE IF bb.actions_without_progress >= bb.limits.max_actions_without_progress
    THEN "no_progress"
    ELSE IF bb.task_age >= 0 /\ bb.task_age > bb.limits.max_task_duration_minutes
    THEN "time"
    ELSE ""

\* BudgetEnforcer.check_can_continue: "" for (True, ""), else the reason
check_can_continue(bb) ==
    IF bb.current_task_iterations >= bb.limits.max_iterations_per_task THEN "iterations"
    ELSE IF bb.current_task_failures >= bb.limits.max_consecutive_failures THEN "failures"
    ELSE IF bb.actions_without_progress >= bb.limits.max_actions_without_progress
    THEN "no_progress"
    ELSE IF bb.task_age >= 0 /\ bb.task_age > bb.limits.max_task_duration_minutes
    THEN "time"
    ELSE ""

\* AgentBudgets.record_curiosity_task, today = date.today()
record_curiosity_task(bb, today) ==
    IF bb.curiosity_tasks_date # today
    THEN [bb EXCEPT !.curiosity_tasks_date = today, !.curiosity_tasks_today = 1]
    ELSE [bb EXCEPT !.curiosity_tasks_today = @ + 1]

\* AgentBudgets.can_create_curiosity_task
can_create_curiosity_task(bb, today) ==
    IF ~bb.limits.curiosity_enabled THEN FALSE
    ELSE IF bb.curiosity_tasks_date # today THEN TRUE
    ELSE bb.curiosity_tasks_today < bb.limits.max_curiosity_tasks_per_day

\* BudgetEnforcer.check_can_create_task
check_can_create_task(bb, pending_count, active_count) ==
    /\ pending_count < bb.limits.max_pending_tasks
    /\ active_count < bb.limits.max_active_tasks

\* BudgetEnforcer.check_can_create_curiosity_task
check_can_create_curiosity_task(bb, depth, today) ==
    /\ bb.limits.curiosity_enabled
    /\ ~(depth >= bb.limits.max_curiosity_depth)
    /\ can_create_curiosity_task(bb, today)

\* AgentBudgets.to_dict()["current"], as written by BudgetEnforcer.save_state
to_dict(bb) == [task_iterations |-> bb.current_task_iterations,
                task_failures |-> bb.current_task_failures,
                actions_without_progress |-> bb.actions_without_progress,
                curiosity_tasks_today |-> bb.curiosity_tasks_today]

\* BudgetEnforcer.load_state: nothing when the file is absent; task_started_at
\* and curiosity_tasks_date are not in the file and keep the values the
\* process has
load_state(bb, file) ==
    IF file = <<>> THEN bb
    ELSE [bb EXCEPT !.current_task_iterations = file[1].task_iterations,
                    !.current_task_failures = file[1].task_failures,
                    !.actions_without_progress = file[1].actions_without_progress,
                    !.curiosity_tasks_today = file[1].curiosity_tasks_today]

\* ------------------------------------------------------ curiosity admitter
RECURSIVE process_proposals(_, _, _, _, _, _, _)
\* CuriosityManager.process_proposals(proposals, parent_task_id, parent_depth):
\* for each proposal the two ledger checks; an admitted proposal is created
\* with origin=curiosity and recorded in the day counter. The result is the
\* ledger, inbox.md and the number of tasks created
process_proposals(proposals, parent_task_id, parent_depth, bb, inb, act, now) ==
    IF proposals = <<>> THEN [b |-> bb, inbox |-> inb, created |-> 0]
    ELSE IF /\ check_can_create_curiosity_task(bb, parent_depth + 1, now.day)
            /\ check_can_create_task(bb, Len(get_pending_tasks(inb)),
                                     IF get_active_task(act) = NoTask THEN 0 ELSE 1)
    THEN LET rest == process_proposals(Tail(proposals), parent_task_id, parent_depth,
                                       record_curiosity_task(bb, now.day),
                                       create_task(inb, Head(proposals), "curiosity",
                                                   "low", parent_task_id, now),
                                       act, now)
         IN  [rest EXCEPT !.created = @ + 1]
    ELSE process_proposals(Tail(proposals), parent_task_id, parent_depth, bb, inb,
                           act, now)

\* ------------------------------------------------------------- cycle log
\* CycleHistory.load_history: lines that fail to parse are skipped
load_history(lines) == SelectSeq(lines, LAMBDA l : l.line = "ok")

\* CycleHistory.append_cycle: open(file, "a").write(json + "\n"); after a torn
\* last line (no newline) the new text continues that line, which stays
\* unparseable
append_cycle(lines, state) ==
    IF lines # <<>> /\ lines[Len(lines)].line = "torn"
    THEN [lines EXCEPT ![Len(lines)].line = "merged"]
    ELSE Append(lines, state)

\* a write of append_cycle cut short: a last line without its newline
torn_append(lines, state) ==
    IF lines # <<>> /\ lines[Len(lines)].line = "torn"
    THEN lines
    ELSE Append(lines, [state EXCEPT !.line = "torn"])

\* --------------------------------------------------------- stuck detector
LastN(s, n) == IF Len(s) <= n THEN s ELSE SubSeq(s, Len(s) - n + 1, Len(s))
AllSame(s) == \A i \in 1..Len(s) : s[i] = s[1]

\* StuckDetector.is_stuck: "" for (False, ""), else which pattern fired
is_stuck(h) ==
    IF Len(h) < window_size THEN ""
    ELSE LET recent == LastN(h, window_size)
             actions == SelectSeq(recent, LAMBDA c : c.state.action # "none")
             errors == SelectSeq(recent, LAMBDA c : c.state.obs \in {"fail_exec", "fail_exc"})
             no_progress_count == Len(SelectSeq(recent, LAMBDA c : c.state.progress = "no"))
             n == Len(actions)
         IN IF Len(actions) >= 3
               /\ AllSame([i \in 1..3 |-> LastN(actions, 3)[i].state.action])
            THEN "same_action"
            ELSE IF Len(errors) >= 3
                    /\ AllSame([i \in 1..3 |-> LastN(errors, 3)[i].state.obs])
            THEN "same_error"
            ELSE IF no_progress_count >= window_size - 1 THEN "no_progress"
            ELSE IF n >= 4
                    /\ actions[n - 3].state.action = actions[n - 1].state.action
                    /\ actions[n - 2].state.action = actions[n].state.action
                    /\ actions[n - 3].state.action # actions[n - 2].state.action
            THEN "oscillation"
            ELSE ""

\* ----------------------------------------------------------- cycle engine
\* what the collaborators can answer in one cycle: llm.chat() for PLAN, the
\* executor's exit code, llm.chat() for REFLECT and for DECIDE ("raise": the
\* call raises), and the minutes the cycle takes
PlanResponses == {"raise", "garbage", "cmdA", "cmdB", "write_inbox", "complete_task",
                  "block_task", "ask_user"}
\* Executor.execute: what subprocess.run does with the command
ExecOutcomes == {"exit0", "exit1", "timeout", "not_found", "spawn_error"}
ExecResponses == ExecOutcomes
ReflectResponses == {"raise", "garbage", "progress", "no_progress"}
DecideResponses == {"raise", "CONTINUE", "COMPLETE", "BLOCKED", "ASK_USER", "other",
                    "CONTINUE, NOT COMPLETE", "ASK_USER OR BLOCKED"}

\* the runs explored: each run draws the answers of its cycles from one of
\* these environments (all response kinds occur, not all of their products);
\* limits is the budgets section of its config.yaml
Environments == {
    \* the executor fails or succeeds, the reflection varies, the LM never stops
    [plan |-> {"cmdA", "garbage"}, exec |-> {"exit0", "exit1"},
     reflect |-> {"progress", "no_progress"}, decide |-> {"CONTINUE"}, minutes |-> {0},
     proposals |-> {0}, limits |-> SmallLimits],
    \* the DECIDE answer varies
    [plan |-> {"cmdA"}, exec |-> {"exit0"}, reflect |-> {"progress"},
     decide |-> {"CONTINUE", "COMPLETE", "BLOCKED", "ASK_USER", "other"}, minutes |-> {0},
     proposals |-> {0}, limits |-> SmallLimits],
    \* the planned action is a terminal one; a failing executor before it
    [plan |-> {"cmdA", "complete_task", "block_task", "ask_user"}, exec |-> {"exit1"},
     reflect |-> {"progress"}, decide |-> {"CONTINUE"}, minutes |-> {0},
     proposals |-> {0}, limits |-> SmallLimits],
    \* the LM call raises, or answers garbage
    [plan |-> {"raise", "cmdA"}, exec |-> {"exit0"},
     reflect |-> {"raise", "garbage"}, decide |-> {"raise", "CONTINUE"}, minutes |-> {0},
     proposals |-> {0}, limits |-> SmallLimits],
    \* slow cycles
    [plan |-> {"cmdA", "garbage"}, exec |-> {"exit0"}, reflect |-> {"progress"},
     decide |-> {"CONTINUE", "COMPLETE"}, minutes |-> {0, 1},
     proposals |-> {0}, limits |-> SmallLimits],
    \* the planned action is write_file on tasks/inbox.md
    [plan |-> {"cmdA", "write_inbox"}, exec |-> {"exit0"}, reflect |-> {"progress"},
     decide |-> {"CONTINUE", "COMPLETE"}, minutes |-> {0},
     proposals |-> {0}, limits |-> SmallLimits] }

\* ReasoningCycle._parse_json_response + _plan: the planned action; garbage
\* gives the fallback execute_command echo 'Parse error, continuing'
planned_action(planResp) == IF planResp = "garbage" THEN "fallback" ELSE planResp

\* ReasoningCycle._act: for execute_command success = exit_code == 0, and the
\* fallback echo exits 0; write_file succeeds
\* the exit code execute() stores: the return code of the child, -1 in the
\* TimeoutExpired handler, 127 in the FileNotFoundError handler, -1 in the
\* handler of every other exception
exit_code_of(outcome) ==
    CASE outcome = "exit0" -> 0
      [] outcome = "exit1" -> 1
      [] outcome = "timeout" -> -1
      [] outcome = "not_found" -> 127
      [] OTHER -> -1

\* duration_ms of one call, in seconds: a timed out child ran for the timeout
duration_of(outcome) == IF outcome = "timeout" THEN command_timeout ELSE 0

\* EventLogger.log_command: one command_execution event with the exit code
\* and the duration it is given
log_command(exit_code, duration_ms) ==
    [event_type |-> "command_execution", exit_code |-> exit_code,
     duration_ms |-> duration_ms]

\* a variant of execute() without the handler of the other exceptions: the
\* exception leaves execute() before the event is logged
execute_unhandled(outcome) ==
    IF outcome = "spawn_error"
    THEN [outcome |-> outcome, raised |-> TRUE, exit_code |-> 0,
          timed_out |-> FALSE, duration_ms |-> 0, logged |-> <<>>]
    ELSE [outcome |-> outcome, raised |-> FALSE,
          exit_code |-> exit_code_of(outcome),
          timed_out |-> (outcome = "timeout"),
          duration_ms |-> duration_of(outcome),
          logged |-> <<log_command(exit_code_of(outcome), duration_of(outcome))>>]

\* Executor.execute: the ExecutionResult it returns and the events it appends
execute(outcome) ==
    [outcome |-> outcome, raised |-> FALSE,
     exit_code |-> exit_code_of(outcome),
     timed_out |-> (outcome = "timeout"),
     duration_ms |-> duration_of(outcome),
     logged |-> <<log_command(exit_code_of(outcome), duration_of(outcome))>>]

\* no call of execute() in the cycle
NoExecution == [outcome |-> "none", raised |-> FALSE, exit_code |-> 0,
                timed_out |-> FALSE, duration_ms |-> 0, logged |-> <<>>]

\* the call of execute() one cycle makes: the planned command, or the echo of
\* the fallback action, which exits with 0
executed(planResp, execResp) ==
    IF planned_action(planResp) \in {"cmdA", "cmdB"} THEN execute(execResp)
    ELSE IF planned_action(planResp) = "fallback" THEN execute("exit0")
    ELSE NoExecution

\* ReasoningCycle._act: Observation.success is result.exit_code == 0
act(action, execResp) ==
    IF action \in {"fallback", "write_inbox"} \/ execute(execResp).exit_code = 0 THEN "ok"
    ELSE "fail_exec"

\* ReasoningCycle._act calls Executor.execute for execute_command only; every
\* execute() appends one command_execution event
executor_called(planResp) == planned_action(planResp) \in {"cmdA", "cmdB", "fallback"}

\* variant: an ACT phase that rewrites tasks/inbox.md whatever the action is
write_file_always(inb, planResp) == <<>>

\* ReasoningCycle._act for write_file: path.write_text(content) on the path
\* the plan names, here tasks/inbox.md with an empty content
write_file(inb, planResp) == IF planned_action(planResp) = "write_inbox" THEN <<>> ELSE inb

\* the llm.chat() calls of one run(): _plan calls it once; _reflect and
\* _decide call it once each when run() gets to them
lm_calls(planResp, reflResp, decResp) ==
    IF planResp = "raise" \/ planned_action(planResp) \in {"complete_task", "block_task", "ask_user"}
    THEN 1
    ELSE IF reflResp = "raise" THEN 2
    ELSE 3

\* CycleResult.proposed_tasks: reflection.proposed_tasks of a parsed REFLECT
\* answer when the cycle ran all phases, [] otherwise
proposed_tasks(planResp, reflResp, decResp, n) ==
    IF /\ planned_action(planResp) \in {"cmdA", "cmdB", "fallback", "write_inbox"}
       /\ reflResp \in {"progress", "no_progress"}
       /\ decResp # "raise"
    THEN [k \in 1..n |-> IF k = 1 THEN "p1" ELSE "p2"]
    ELSE <<>>

\* ReasoningCycle._reflect: progress_made, False in the parse fallback
reflect(reflResp) == IF reflResp = "progress" THEN "yes" ELSE "no"

\* the decision tokens that occur in response.content.strip().upper(), in
\* the order of their first occurrence
tokens(decResp) ==
    CASE decResp \in {"CONTINUE", "COMPLETE", "BLOCKED", "ASK_USER"} -> <<decResp>>
      [] decResp = "CONTINUE, NOT COMPLETE" -> <<"CONTINUE", "COMPLETE">>
      [] decResp = "ASK_USER OR BLOCKED" -> <<"ASK_USER", "BLOCKED">>
      [] OTHER -> <<>>

\* ReasoningCycle._decide: substring tests in the order COMPLETE, BLOCKED, ASK_USER
decide(decResp) ==
    LET occurs(tok) == \E i \in 1..Len(tokens(decResp)) : tokens(decResp)[i] = tok
    IN  IF occurs("COMPLETE") THEN "complete"
        ELSE IF occurs("BLOCKED") THEN "blocked"
        ELSE IF occurs("ASK_USER") THEN "ask_user"
        ELSE "continue"

\* variant: run() that goes through ACT, REFLECT and DECIDE whatever the
\* planned action is
run_all_phases(cycle_id, planResp, execResp, reflResp, decResp) ==
    [cycle_id |-> cycle_id, action |-> planned_action(planResp),
     obs |-> act(planned_action(planResp), execResp), progress |-> reflect(reflResp),
     decision |-> decide(decResp), phase |-> "decide"]

\* ReasoningCycle.run: the CycleState of the CycleResult it returns
run(cycle_id, planResp, execResp, reflResp, decResp) ==
    LET base == [cycle_id |-> cycle_id, action |-> "none", obs |-> "none",
                 progress |-> "none", decision |-> "continue", phase |-> "plan"]
        action == planned_action(planResp)
    IN  IF planResp = "raise"
        THEN [base EXCEPT !.obs = "fail_exc", !.decision = "blocked"]
        ELSE IF action = "complete_task"
        THEN [base EXCEPT !.action = action, !.decision = "complete"]
        ELSE IF action = "block_task"
        THEN [base EXCEPT !.action = action, !.decision = "blocked"]
        ELSE IF action = "ask_user"
        THEN [base EXCEPT !.action = action, !.decision = "ask_user"]
        ELSE IF reflResp = "raise"
        THEN [base EXCEPT !.action = action, !.obs = "fail_exc",
                          !.decision = "blocked", !.phase = "reflect"]
        ELSE IF decResp = "raise"
        THEN [base EXCEPT !.action = action, !.obs = "fail_exc",
                          !.progress = reflect(reflResp),
                          !.decision = "blocked", !.phase = "decide"]
        ELSE [base EXCEPT !.action = action, !.obs = act(action, execResp),
                          !.progress = reflect(reflResp),
                          !.decision = decide(decResp), !.phase = "decide"]

\* Agent._run_cycles: made_progress and had_failure of a returned state
made_progress(state) == state.progress = "yes"
had_failure(state) == state.obs \in {"fail_exec", "fail_exc"}

\* ---------------------------------------------------------------- state
RECURSIVE SumOver(_, _)
SumOver(f, S) == IF S = {} THEN 0
                 ELSE LET x == CHOOSE y \in S : TRUE IN f[x] + SumOver(f, S \ {x})

TotalActivations == SumOver(nact, TaskIds)

\* the state of a new process and of the files other than inbox.md
InitProcess ==
    /\ active = NoTask
    /\ completed = {}
    /\ blocked = {}
    /\ histfile = [t \in TaskIds |-> <<>>]
    /\ budgetFile = <<>>
    /\ pc = "idle"
    /\ task = NoTask
    /\ history = <<>>
    /\ cycle_num = 0
    /\ cycles_run = 0
    /\ cur = <<>>
    /\ pend = NoPend
    /\ result = NoResult
    /\ nact = [t \in TaskIds |-> 0]
    /\ ncycles = 0
    /\ crashes = 0
    /\ saved_for = <<0, 0>>
    /\ running = TRUE
    /\ shutdown_events = 0
    /\ events = 0
    /\ clock = [day |-> 0, time |-> 0]
    /\ created = [d \in 0..MaxDay |-> 0]
    /\ task_minutes = 0
    /\ other = [who |-> "web", switches |-> 0, b |-> FreshBudgets(SmallLimits),
                pc |-> "idle", task |-> NoTask, history |-> <<>>, cycle_num |-> 0,
                cycles_run |-> 0, cur |-> <<>>, pend |-> NoPend, result |-> NoResult,
                events |-> 0]

\* no function call is under way
NoCall == [op |-> "none", args |-> <<>>, ret |-> <<>>, done |-> FALSE]

InitRest == InitProcess /\ call = NoCall

\* inbox.md holds the two user tasks, without deadline
InitFiles ==
    /\ \E prio \in [Tasks -> Priorities], d \in Descriptions :
          inbox = [i \in 1..2 |-> [task_id |-> i, priority |-> prio[i], notes |-> 0,
                                   desc |-> IF i = 1 THEN d ELSE "text",
                                   parses |-> TRUE, origin |-> "user",
                                   parent_task |-> 0, depth_line |-> -1, deadline |-> 0]]
    /\ InitRest

Init == InitFiles /\ env \in Environments /\ b = FreshBudgets(env.limits)

\* --------------------------------------------------------------- Agent.tick
\* tick() when pre_flight_check() fails: TickResult(success=False)
TickPreflightFails ==
    /\ pc = "idle"
    /\ running
    /\ events' = 0
    /\ result' = [NoResult EXCEPT !.success = FALSE,
                                  !.message = "Pre-flight checks failed"]
    /\ UNCHANGED <<inbox, active, completed, blocked, histfile, budgetFile, b, pc,
                   task, history, cycle_num, cycles_run, cur, pend, nact, ncycles,
                   crashes, saved_for, env, xvars>>

\* variant: an idle tick that resets and saves the ledger and logs an event
TickIdle_saves ==
    /\ pc = "idle"
    /\ running
    /\ get_active_task(active) = NoTask
    /\ get_pending_tasks(inbox) = <<>>
    /\ events' = 1
    /\ b' = reset_for_new_task(load_state(b, budgetFile))
    /\ budgetFile' = <<to_dict(reset_for_new_task(load_state(b, budgetFile)))>>
    /\ result' = NoResult
    /\ UNCHANGED <<inbox, active, completed, blocked, histfile, pc, task,
                   history, cycle_num, cycles_run, cur, pend, nact, ncycles, crashes,
                   saved_for, env, xvars>>

\* tick() with neither an active nor a pending task: "No pending tasks"
TickIdle ==
    /\ pc = "idle"
    /\ running
    /\ get_active_task(active) = NoTask
    /\ get_pending_tasks(inbox) = <<>>
    /\ events' = 0
    /\ b' = load_state(b, budgetFile)
    /\ result' = NoResult
    /\ UNCHANGED <<inbox, active, completed, blocked, histfile, budgetFile, pc, task,
                   history, cycle_num, cycles_run, cur, pend, nact, ncycles, crashes, saved_for, env, xvars>>

\* tick() finding an active task: load_state, then _run_cycles(task) up to the
\* loop: history = load_history(task_id), cycle_num = len(history)
TickResume ==
    /\ pc = "idle"
    /\ running
    /\ get_active_task(active) # NoTask
    /\ events' = 0
    /\ b' = load_state(b, budgetFile)
    /\ task' = get_active_task(active)
    /\ history' = load_history(histfile[active.task_id])
    /\ cycle_num' = Len(load_history(histfile[active.task_id]))
    /\ cycles_run' = 0
    /\ pc' = "loop"
    /\ result' = Running
    /\ UNCHANGED <<inbox, active, completed, blocked, histfile, budgetFile, cur, pend,
                   nact, ncycles, crashes, saved_for, env, xvars>>

\* tick() with no active task: load_state, task = pending[0], and the first
\* write of activate_task (active.md)
TickActivate ==
    /\ pc = "idle"
    /\ running
    /\ get_active_task(active) = NoTask
    /\ get_pending_tasks(inbox) # <<>>
    /\ events' = 0
    /\ TotalActivations < MaxActivations
    /\ b' = load_state(b, budgetFile)
    /\ task' = get_pending_tasks(inbox)[1]
    /\ active' = get_pending_tasks(inbox)[1]
    /\ nact' = [nact EXCEPT ![get_pending_tasks(inbox)[1].task_id] = @ + 1]
    /\ pc' = "activating"
    /\ result' = Running
    /\ UNCHANGED <<inbox, completed, blocked, histfile, budgetFile, history, cycle_num,
                   cycles_run, cur, pend, ncycles, crashes, saved_for, env, xvars>>

\* the second write of activate_task (inbox.md), reset_for_new_task, the
\* "activated" task_update event, and _run_cycles(task) up to the loop
ActivateFinish ==
    /\ pc = "activating"
    /\ events' = events + 1
    /\ inbox' = remove_from_inbox(inbox, task)
    /\ b' = reset_for_new_task(b)
    /\ history' = load_history(histfile[task.task_id])
    /\ cycle_num' = Len(load_history(histfile[task.task_id]))
    /\ cycles_run' = 0
    /\ pc' = "loop"
    /\ task_minutes' = 0
    /\ UNCHANGED <<active, completed, blocked, histfile, budgetFile, task, cur, pend,
                   result, nact, ncycles, crashes, saved_for, env,
                   running, shutdown_events, clock, created, other, call>>

\* ------------------------------------------------------- Agent._run_cycles
\* the two checks at the top of the loop
BudgetVerdict == check_can_continue(b)
StuckVerdict == IF BudgetVerdict = "" THEN is_stuck(history) ELSE ""
\* variant: a loop that runs the cycle whatever the budget check said
MayRunCycle_unchecked == is_stuck(history) = ""
MayRunCycle == BudgetVerdict = "" /\ StuckVerdict = ""

\* budget check fails: _handle_budget_exceeded, first write of pause_task
BudgetExceeded ==
    /\ pc = "loop"
    /\ BudgetVerdict # ""
    /\ cycle_num' = cycle_num + 1
    /\ cycles_run' = cycles_run + 1
    /\ inbox' = Append(inbox, paused_content(task))
    /\ pend' = [decision |-> "budget_exceeded", message |-> BudgetVerdict]
    /\ pc' = "clearing"
    /\ events' = events
    /\ UNCHANGED <<active, completed, blocked, histfile, budgetFile, b, task, history,
                   cur, result, nact, ncycles, crashes, saved_for, env, xvars>>

\* stuck check fires: _handle_stuck, first write of pause_task
Stuck ==
    /\ pc = "loop"
    /\ StuckVerdict # ""
    /\ cycle_num' = cycle_num + 1
    /\ cycles_run' = cycles_run + 1
    /\ inbox' = Append(inbox, paused_content(task))
    /\ pend' = [decision |-> "stuck", message |-> StuckVerdict]
    /\ pc' = "clearing"
    /\ events' = events
    /\ UNCHANGED <<active, completed, blocked, histfile, budgetFile, b, task, history,
                   cur, result, nact, ncycles, crashes, saved_for, env, xvars>>

\* both checks pass: ReasoningCycle(...).run(); the calls take 0 or 1 minute
RunCycle ==
    /\ pc = "loop"
    /\ MayRunCycle
    /\ ncycles < MaxCycles
    /\ cycle_num' = cycle_num + 1
    /\ cycles_run' = cycles_run + 1
    /\ ncycles' = ncycles + 1
    /\ \E planResp \in env.plan, execResp \in env.exec,
          reflResp \in env.reflect, decResp \in env.decide, n \in env.proposals :
          /\ cur' = <<[state |-> run(cycle_num + 1, planResp, execResp, reflResp, decResp),
                       activation |-> nact[task.task_id], line |-> "ok",
                       proposed |-> proposed_tasks(planResp, reflResp, decResp, n),
                       lm_calls |-> lm_calls(planResp, reflResp, decResp),
                       executor_calls |-> IF executor_called(planResp) THEN 1 ELSE 0,
                       execution |-> executed(planResp, execResp)]>>
          /\ inbox' = write_file(inbox, planResp)
          /\ events' = events + (IF executor_called(planResp) THEN 1 ELSE 0)
    /\ \E minutes \in env.minutes :
          /\ b' = IF b.task_age >= 0 /\ b.task_age + minutes <= MaxElapsed
                  THEN [b EXCEPT !.task_age = @ + minutes]
                  ELSE b
          /\ task_minutes' = IF task_minutes + minutes <= MaxElapsed
                             THEN task_minutes + minutes
                             ELSE task_minutes
    /\ pc' = "append"
    /\ UNCHANGED <<active, completed, blocked, histfile, budgetFile, task,
                   history, pend, result, nact, crashes, saved_for, env,
                   running, shutdown_events, clock, created, other, call>>

\* history.append(result.state); cycle_history.append_cycle(result.state)
AppendCycle ==
    /\ pc = "append"
    /\ history' = Append(history, cur[1])
    /\ histfile' = [histfile EXCEPT ![task.task_id] = append_cycle(@, cur[1])]
    /\ pc' = "save"
    /\ events' = events
    /\ UNCHANGED <<inbox, active, completed, blocked, budgetFile, b, task, cycle_num,
                   cycles_run, cur, pend, result, nact, ncycles, crashes, saved_for, env, xvars>>

\* budgets.record_iteration(made_progress, had_failure); save_state(); the
\* cycle_complete event; then curiosity_manager.process_proposals(
\* result.proposed_tasks, task.task_id, task.curiosity_depth)
SaveBudget ==
    /\ pc = "save"
    /\ LET recorded == record_iteration(b, made_progress(cur[1].state),
                                        had_failure(cur[1].state))
           admitted == process_proposals(cur[1].proposed, task.task_id,
                                         curiosity_depth(task), recorded, inbox,
                                         active, clock)
       IN  /\ budgetFile' = <<to_dict(recorded)>>
           /\ b' = admitted.b
           /\ inbox' = admitted.inbox
           /\ created' = [created EXCEPT ![clock.day] = @ + admitted.created]
    /\ saved_for' = <<task.task_id, cur[1].state.cycle_id>>
    /\ events' = events + 1
    /\ pc' = "decision"
    /\ UNCHANGED <<active, completed, blocked, histfile, task, history,
                   cycle_num, cycles_run, cur, pend, result, nact, ncycles, crashes, env,
                   running, shutdown_events, clock, task_minutes, other, call>>

\* the same step when the append of the cycle_complete event fails (disk full,
\* permission): EventLogger.log catches the exception, prints to stderr and
\* returns, and _run_cycles goes on without the record
LogEventFails ==
    /\ pc = "save"
    /\ LET recorded == record_iteration(b, made_progress(cur[1].state),
                                        had_failure(cur[1].state))
           admitted == process_proposals(cur[1].proposed, task.task_id,
                                         curiosity_depth(task), recorded, inbox,
                                         active, clock)
       IN  /\ budgetFile' = <<to_dict(recorded)>>
           /\ b' = admitted.b
           /\ inbox' = admitted.inbox
           /\ created' = [created EXCEPT ![clock.day] = @ + admitted.created]
    /\ saved_for' = <<task.task_id, cur[1].state.cycle_id>>
    /\ events' = events
    /\ pc' = "decision"
    /\ UNCHANGED <<active, completed, blocked, histfile, task, history,
                   cycle_num, cycles_run, cur, pend, result, nact, ncycles, crashes, env,
                   running, shutdown_events, clock, task_minutes, other, call>>

\* variant: ASK_USER handled like CONTINUE
after_decision_loop(d) == IF d \in {"continue", "ask_user"} THEN "loop" ELSE "clearing"

\* "Act on decision": CONTINUE loops, every other decision ends the tick
after_decision(d) == IF d = "continue" THEN "loop" ELSE "clearing"

\* "Act on decision": the first write of complete_task / block_task /
\* pause_task, or the next loop iteration for CONTINUE
ActOnDecision ==
    /\ pc = "decision"
    /\ LET d == cur[1].state.decision IN
       /\ completed' = IF d = "complete" THEN completed \cup {task.task_id} ELSE completed
       /\ blocked' = IF d = "blocked" THEN blocked \cup {task.task_id} ELSE blocked
       /\ inbox' = IF d \in {"ask_user", "budget_exceeded"}
                   THEN Append(inbox, paused_content(task)) ELSE inbox
       /\ pend' = IF d = "continue" THEN pend ELSE [decision |-> d, message |-> "summary"]
       /\ pc' = after_decision(d)
    /\ cur' = <<>>
    /\ events' = events
    /\ UNCHANGED <<active, histfile, budgetFile, b, task, history, cycle_num,
                   cycles_run, result, nact, ncycles, crashes, saved_for, env, xvars>>

\* the last write of complete_task / block_task / pause_task clears active.md;
\* the handler logs its task_update event (and budget_exceeded or
\* stuck_detected); tick() returns the TickResult
ClearActive ==
    /\ pc = "clearing"
    /\ events' = events + (IF pend.decision \in {"budget_exceeded", "stuck"} THEN 2 ELSE 1)
    /\ active' = NoTask
    /\ result' = [success |-> TRUE, task_processed |-> task.task_id,
                  decision |-> pend.decision, message |-> pend.message,
                  cycles_run |-> cycles_run]
    /\ pc' = "idle"
    /\ task' = NoTask
    /\ history' = <<>>
    /\ cycle_num' = 0
    /\ cycles_run' = 0
    /\ pend' = NoPend
    /\ UNCHANGED <<inbox, completed, blocked, histfile, budgetFile, b, cur, nact,
                   ncycles, crashes, saved_for, env, xvars>>

\* ------------------------------------------------------------ environment
\* the process is killed and started again: the files stay, the memory of the
\* process is that of a new Agent
Crash ==
    /\ crashes < MaxCrashes
    /\ crashes' = crashes + 1
    /\ b' = FreshBudgets(env.limits)
    /\ events' = 0
    /\ pc' = "idle"
    /\ task' = NoTask
    /\ history' = <<>>
    /\ cycle_num' = 0
    /\ cycles_run' = 0
    /\ cur' = <<>>
    /\ pend' = NoPend
    /\ result' = NoResult
    /\ UNCHANGED <<inbox, active, completed, blocked, histfile, budgetFile, nact, ncycles, saved_for, env, xvars>>

\* the process is killed while append_cycle writes: a last line without newline
CrashInAppend ==
    /\ pc = "append"
    /\ crashes < MaxCrashes
    /\ crashes' = crashes + 1
    /\ histfile' = [histfile EXCEPT ![task.task_id] = torn_append(@, cur[1])]
    /\ b' = FreshBudgets(env.limits)
    /\ events' = 0
    /\ pc' = "idle"
    /\ task' = NoTask
    /\ history' = <<>>
    /\ cycle_num' = 0
    /\ cycles_run' = 0
    /\ cur' = <<>>
    /\ pend' = NoPend
    /\ result' = NoResult
    /\ UNCHANGED <<inbox, active, completed, blocked, budgetFile, nact, ncycles, saved_for, env, xvars>>

\* ------------------------------------------------------------- Agent.run
\* SIGINT or SIGTERM is delivered: signal_handler sets self.running = False
Signal ==
    /\ running
    /\ pc # "exited"
    /\ running' = FALSE
    /\ UNCHANGED <<inbox, active, completed, blocked, histfile, budgetFile, b, pc, task,
                   history, cycle_num, cycles_run, cur, pend, result, nact, ncycles,
                   crashes, saved_for, env, shutdown_events, events, clock, created,
                   task_minutes, other, call>>

\* variant: a handler that ends the process wherever it is
RunExit_anywhere ==
    /\ pc # "exited"
    /\ ~running
    /\ pc' = "exited"
    /\ shutdown_events' = shutdown_events + 1
    /\ UNCHANGED <<inbox, active, completed, blocked, histfile, budgetFile, b, task,
                   history, cycle_num, cycles_run, cur, pend, result, nact, ncycles,
                   crashes, saved_for, env, running, events, clock, created,
                   task_minutes, other, call>>

\* "while self.running" is false when tick() has returned: the finally block
\* logs the shutdown event and run() returns
RunExit ==
    /\ pc = "idle"
    /\ ~running
    /\ pc' = "exited"
    /\ shutdown_events' = shutdown_events + 1
    /\ UNCHANGED <<inbox, active, completed, blocked, histfile, budgetFile, b, task,
                   history, cycle_num, cycles_run, cur, pend, result, nact, ncycles,
                   crashes, saved_for, env, running, events, clock, created,
                   task_minutes, other, call>>

\* cycle_history.append_cycle raises (open or write fails): nothing catches it
\* in _run_cycles, tick() or run(); the finally block of run() logs the
\* shutdown event and the exception ends the process. history.append has run
AppendFails ==
    /\ pc = "append"
    /\ history' = Append(history, cur[1])
    /\ result' = Raised
    /\ pc' = "exited"
    /\ shutdown_events' = shutdown_events + 1
    /\ UNCHANGED <<inbox, active, completed, blocked, histfile, budgetFile, b, task,
                   cycle_num, cycles_run, cur, pend, nact, ncycles,
                   crashes, saved_for, env, running, events, clock, created,
                   task_minutes, other, call>>

\* budget_enforcer.save_state raises after record_iteration counted the cycle
SaveFails ==
    /\ pc = "save"
    /\ b' = record_iteration(b, made_progress(cur[1].state), had_failure(cur[1].state))
    /\ result' = Raised
    /\ pc' = "exited"
    /\ shutdown_events' = shutdown_events + 1
    /\ UNCHANGED <<inbox, active, completed, blocked, histfile, budgetFile, task,
                   history, cycle_num, cycles_run, cur, pend, nact, ncycles,
                   crashes, saved_for, env, running, events, clock, created,
                   task_minutes, other, call>>

\* ---------------------------------------------------------------- web layer
\* POST /tasks/create (web/app.py create_task): the block built from the form
\* (task_id, priority, description; no origin, parent or depth line) is
\* appended to inbox.md by the web process
WebCreateTask ==
    /\ Len(SelectSeq(inbox, LAMBDA r : r.task_id \in WebTaskIds)) < MaxWebTasks
    /\ \E id \in WebTaskIds, prio \in Priorities :
          inbox' = Append(inbox, [task_id |-> id, priority |-> prio, notes |-> 0,
                                  desc |-> "text", parses |-> TRUE,
                                  origin |-> "user", parent_task |-> 0,
                                  depth_line |-> -1, deadline |-> 0])
    /\ UNCHANGED <<active, completed, blocked, histfile, budgetFile, b, pc, task,
                   history, cycle_num, cycles_run, cur, pend, result, nact, ncycles,
                   crashes, saved_for, env, events, xvars>>

\* POST /control/clear-tasks (web/app.py control_clear_tasks): inbox.md is
\* overwritten with the "Cleared via Control Panel" marker, which holds no block
WebClearTasks ==
    /\ inbox' = <<>>
    /\ UNCHANGED <<active, completed, blocked, histfile, budgetFile, b, pc, task,
                   history, cycle_num, cycles_run, cur, pend, result, nact, ncycles,
                   crashes, saved_for, env, events, xvars>>

Next ==
    \/ TickPreflightFails
    \/ TickIdle
    \/ TickActivate
    \/ ActivateFinish
    \/ BudgetExceeded
    \/ Stuck
    \/ RunCycle
    \/ AppendCycle
    \/ SaveBudget
    \/ ActOnDecision
    \/ ClearActive

Spec == Init /\ [][Next]_vars

NextCrash == Next \/ TickResume \/ Crash \/ CrashInAppend

\* the runs with process kills draw their answers from one environment
CrashEnvironments == {
    [plan |-> {"cmdA"}, exec |-> {"exit0"}, reflect |-> {"progress"},
     decide |-> {"CONTINUE", "COMPLETE"}, minutes |-> {0},
     proposals |-> {0}, limits |-> SmallLimits] }

InitCrash == InitFiles /\ env \in CrashEnvironments /\ b = FreshBudgets(env.limits)

SpecCrash == InitCrash /\ [][NextCrash]_vars

\* the runs with the default limits (no budgets section in config.yaml): the
\* plan alternates between two commands, or one command keeps failing
DefaultEnvironments == {
    [plan |-> {"cmdA", "cmdB"}, exec |-> {"exit0"}, reflect |-> {"progress"},
     decide |-> {"CONTINUE"}, minutes |-> {0},
     proposals |-> {0}, limits |-> DefaultLimits],
    [plan |-> {"cmdA"}, exec |-> {"exit1"}, reflect |-> {"no_progress"},
     decide |-> {"CONTINUE"}, minutes |-> {0},
     proposals |-> {0}, limits |-> DefaultLimits] }

InitDefaults == InitFiles /\ env \in DefaultEnvironments /\ b = FreshBudgets(env.limits)

\* no task ever leaves the queue in these runs, so no tick is idle
NextDefaults ==
    \/ TickPreflightFails
    \/ TickActivate
    \/ ActivateFinish
    \/ BudgetExceeded
    \/ Stuck
    \/ RunCycle
    \/ AppendCycle
    \/ SaveBudget
    \/ ActOnDecision
    \/ ClearActive

SpecDefaults == InitDefaults /\ [][NextDefaults]_vars

\* time passes between two ticks: the next second of the day, or the first
\* second of the next day
ClockTick ==
    /\ pc = "idle"
    /\ \/ /\ clock.time < MaxTime
          /\ clock' = [clock EXCEPT !.time = @ + 1]
       \/ /\ clock.day < MaxDay
          /\ clock' = [day |-> clock.day + 1, time |-> 0]
    /\ UNCHANGED <<inbox, active, completed, blocked, histfile, budgetFile, b, pc, task,
                   history, cycle_num, cycles_run, cur, pend, result, nact, ncycles,
                   crashes, saved_for, env, running, shutdown_events, events, created,
                   task_minutes, other, call>>

\* the runs in which a REFLECT answer carries no proposal or
\* max_proposals_per_cycle of them
CuriosityEnvironments == {
    [plan |-> {"cmdA"}, exec |-> {"exit0"}, reflect |-> {"progress"},
     decide |-> {"CONTINUE", "COMPLETE"}, minutes |-> {0},
     proposals |-> {0, max_proposals_per_cycle}, limits |-> SmallLimits] }

\* two user tasks of high priority with a description
InitCuriosity ==
    /\ InitFiles
    /\ \A i \in 1..2 : inbox[i].priority = "high" /\ inbox[i].desc = "text"
    /\ env \in CuriosityEnvironments
    /\ b = FreshBudgets(env.limits)

NextCuriosity ==
    \/ TickIdle
    \/ TickActivate
    \/ ActivateFinish
    \/ BudgetExceeded
    \/ RunCycle
    \/ AppendCycle
    \/ SaveBudget
    \/ ActOnDecision
    \/ ClearActive
    \/ ClockTick

SpecCuriosity == InitCuriosity /\ [][NextCuriosity]_vars

\* the runs of run() with a shutdown signal: one cycle per activation
RunLimits == [SmallLimits EXCEPT !.max_iterations_per_task = 1]

RunEnvironments == {
    [plan |-> {"cmdA"}, exec |-> {"exit0"}, reflect |-> {"progress"},
     decide |-> {"CONTINUE", "COMPLETE"}, minutes |-> {0},
     proposals |-> {0}, limits |-> RunLimits] }

InitRun == InitFiles /\ env \in RunEnvironments /\ b = FreshBudgets(env.limits)

\* the steps of the process (with one cycle per activation the stuck
\* detector never has a window of cycles)
NextProcess ==
    \/ TickPreflightFails
    \/ TickIdle
    \/ TickActivate
    \/ ActivateFinish
    \/ BudgetExceeded
    \/ RunCycle
    \/ AppendCycle
    \/ SaveBudget
    \/ ActOnDecision
    \/ ClearActive
    \/ RunExit

NextRun == NextProcess \/ Signal

\* the process keeps running: a step of it that stays possible is taken
SpecRun == InitRun /\ [][NextRun]_vars /\ WF_vars(NextProcess)

\* the runs in which a write to the cycle log or to budgets.json fails
NextIO == Next \/ AppendFails \/ SaveFails

SpecIO == InitCrash /\ [][NextIO]_vars

\* the runs in which every call returns and the process is not killed: the
\* executor fails or succeeds and the LM goes on or completes
TickEnvironments == {
    [plan |-> {"cmdA"}, exec |-> {"exit0", "exit1"}, reflect |-> {"progress"},
     decide |-> {"CONTINUE", "COMPLETE"}, minutes |-> {0},
     proposals |-> {0}, limits |-> SmallLimits] }

InitTick == InitFiles /\ env \in TickEnvironments /\ b = FreshBudgets(env.limits)

\* a started tick goes on: each of its calls returns and its next step is taken
SpecTick == InitTick /\ [][Next]_vars /\ WF_vars(Next)

\* the runs in which the plan names a command or one of the terminal actions
PlanEnvironments == {
    [plan |-> {"cmdA", "complete_task", "block_task", "ask_user"},
     exec |-> {"exit0", "exit1"}, reflect |-> {"progress"},
     decide |-> {"CONTINUE"}, minutes |-> {0},
     proposals |-> {0}, limits |-> SmallLimits] }

InitPlan == InitFiles /\ env \in PlanEnvironments /\ b = FreshBudgets(env.limits)

SpecPlan == InitPlan /\ [][Next]_vars

\* the runs in which every DECIDE answer of the LM is the same text
DecideEnvironments == {
    [plan |-> {"cmdA"}, exec |-> {"exit0"}, reflect |-> {"progress", "no_progress"},
     decide |-> {text}, minutes |-> {0},
     proposals |-> {0}, limits |-> SmallLimits] : text \in DecideResponses \ {"raise"} }

InitDecide == InitFiles /\ env \in DecideEnvironments /\ b = FreshBudgets(env.limits)

SpecDecide == InitDecide /\ [][Next]_vars

\* the runs with process kills in which the two pending tasks differ in
\* priority (high, low, or a word parse_inbox does not know) or in deadline
InitSelect ==
    /\ \E p \in {"high", "low", "urgent"}, d1 \in {0, 2}, d2 \in {0, 1} :
          inbox = [i \in 1..2 |-> [NoTask EXCEPT !.task_id = i,
                                                 !.priority = IF i = 1 THEN "high" ELSE p,
                                                 !.desc = "text",
                                                 !.deadline = IF i = 1 THEN d1 ELSE d2]]
    /\ InitRest
    /\ env \in CrashEnvironments
    /\ b = FreshBudgets(env.limits)

SpecSelect == InitSelect /\ [][NextCrash]_vars

\* the runs with process kills and slow cycles
RestartEnvironments == {
    [plan |-> {"cmdA"}, exec |-> {"exit0"}, reflect |-> {"progress"},
     decide |-> {"CONTINUE", "COMPLETE"}, minutes |-> {0, 1},
     proposals |-> {0}, limits |-> SmallLimits] }

InitRestart ==
    /\ InitFiles
    /\ \A i \in 1..2 : inbox[i].priority = "high" /\ inbox[i].desc = "text"
    /\ env \in RestartEnvironments
    /\ b = FreshBudgets(env.limits)

SpecRestart == InitRestart /\ [][NextCrash]_vars

\* the runs in which an append to the event log can fail
NextLog == Next \/ LogEventFails

SpecLog == InitCrash /\ [][NextLog]_vars

\* the runs in which commands succeed or fail and cycles make progress or not
CounterEnvironments == {
    [plan |-> {"cmdA"}, exec |-> {"exit0", "exit1"},
     reflect |-> {"progress", "no_progress"},
     decide |-> {"CONTINUE", "COMPLETE"}, minutes |-> {0},
     proposals |-> {0}, limits |-> SmallLimits] }

InitCounters ==
    /\ InitFiles
    /\ \A i \in 1..2 : inbox[i].desc = "text"
    /\ inbox[1].priority = "high" /\ inbox[2].priority = "low"
    /\ env \in CounterEnvironments
    /\ b = FreshBudgets(env.limits)

SpecCounters == InitCounters /\ [][Next]_vars

\* the runs in which a command ends in each of the ways subprocess.run can end
ExecEnvironments == {
    [plan |-> {"cmdA"}, exec |-> ExecOutcomes \ {"exit1"}, reflect |-> {"progress"},
     decide |-> {"CONTINUE", "COMPLETE"}, minutes |-> {0},
     proposals |-> {0}, limits |-> SmallLimits] }

InitExec ==
    /\ InitFiles
    /\ \A i \in 1..2 : inbox[i].desc = "text"
    /\ inbox[1].priority = "high" /\ inbox[2].priority = "low"
    /\ env \in ExecEnvironments
    /\ b = FreshBudgets(env.limits)

SpecExec == InitExec /\ [][Next]_vars

\* ------------------------------------------------- curiosity evaluator
\* CuriosityEvaluator.ALLOWED_CATEGORIES
ALLOWED_CATEGORIES == {"verification", "documentation", "robustness", "exploration"}

\* the quality checks of evaluate_proposals, in the order of the code: value,
\* category, len(justification), len(description); a proposal is given with
\* its estimated_value in tenths and the lengths of its two texts
passes_checks(proposal) ==
    /\ ~(proposal.estimated_value < min_value_threshold)
    /\ ~(proposal.category \notin ALLOWED_CATEGORIES)
    /\ ~(proposal.justification < 10)
    /\ ~(proposal.description < 20)

\* list.sort(key=estimated_value, reverse=True) is stable: an element goes
\* behind the elements sorted so far whose value is not smaller
insert_by_value(sorted, p) ==
    LET k == Cardinality({i \in 1..Len(sorted) :
                             sorted[i].estimated_value >= p.estimated_value})
    IN SubSeq(sorted, 1, k) \o <<p>> \o SubSeq(sorted, k + 1, Len(sorted))

RECURSIVE sort_by_value(_)
sort_by_value(valid) ==
    IF valid = <<>> THEN <<>>
    ELSE insert_by_value(sort_by_value(SubSeq(valid, 1, Len(valid) - 1)),
                         valid[Len(valid)])

\* a variant of evaluate_proposals that cuts the list before it sorts it
evaluate_proposals_cut_first(proposals) ==
    LET valid == SelectSeq(proposals, passes_checks)
    IN sort_by_value(SubSeq(valid, 1,
                            IF Len(valid) < max_proposals_per_cycle THEN Len(valid)
                            ELSE max_proposals_per_cycle))

\* CuriosityEvaluator.evaluate_proposals: valid[:max_proposals_per_cycle] of
\* the sorted list of the proposals that pass the checks
evaluate_proposals(proposals) ==
    LET valid == SelectSeq(proposals, passes_checks)
        sorted == sort_by_value(valid)
    IN SubSeq(sorted, 1, IF Len(sorted) < max_proposals_per_cycle THEN Len(sorted)
                         ELSE max_proposals_per_cycle)

\* the proposals a reflection can carry: good ones of three values, one on the
\* threshold, and one failing each check by the least amount
ProposalKinds ==
    {[estimated_value |-> v, category |-> "verification", justification |-> 10,
      description |-> 20] : v \in {6, 8, 9}}
    \cup {[estimated_value |-> 5, category |-> "exploration", justification |-> 10,
           description |-> 20],
          [estimated_value |-> 9, category |-> "general", justification |-> 10,
           description |-> 20],
          [estimated_value |-> 9, category |-> "robustness", justification |-> 9,
           description |-> 20],
          [estimated_value |-> 9, category |-> "documentation", justification |-> 10,
           description |-> 19]}

\* a list of proposals; id is the position in the list (the identity of the
\* object)
ProposalLists ==
    UNION {{[i \in 1..n |-> [id |-> i, estimated_value |-> f[i].estimated_value,
                             category |-> f[i].category,
                             justification |-> f[i].justification,
                             description |-> f[i].description]] :
            f \in [1..n -> ProposalKinds]} : n \in 0..MaxProposals}

\* the state in which only a function call is under way
InitCall ==
    /\ InitProcess
    /\ inbox = <<>>
    /\ env \in CrashEnvironments
    /\ b = FreshBudgets(env.limits)

InitEvaluate ==
    /\ InitCall
    /\ \E proposals \in ProposalLists :
          call = [op |-> "evaluate_proposals", args |-> proposals, ret |-> <<>>,
                  done |-> FALSE]

\* the call returns
Evaluate ==
    /\ call.op = "evaluate_proposals"
    /\ ~call.done
    /\ call' = [call EXCEPT !.ret = evaluate_proposals(call.args), !.done = TRUE]
    /\ UNCHANGED <<inbox, active, completed, blocked, histfile, budgetFile, b, pc, task,
                   history, cycle_num, cycles_run, cur, pend, result, nact, ncycles,
                   crashes, saved_for, env, running, shutdown_events, events, clock,
                   created, task_minutes, other>>

SpecEvaluate == InitEvaluate /\ [][Evaluate]_vars

\* a description is a sequence of words; word w + MaxTokens is word w written
\* with upper-case letters
lower(w) == IF w > MaxTokens THEN w - MaxTokens ELSE w

\* set(description.lower().split())
word_set(description) == {lower(description[i]) : i \in 1..Len(description)}

\* a variant of is_duplicate that compares with >=
is_duplicate_ge(proposal, existing_tasks) ==
    \E j \in 1..Len(existing_tasks) :
        LET proposal_words == word_set(proposal)
            task_words == word_set(existing_tasks[j])
            overlap == Cardinality(proposal_words \cap task_words)
        IN overlap * 10 >= Cardinality(proposal_words) * 7

\* CuriosityEvaluator.is_duplicate: overlap > len(proposal_words) * 0.7 for
\* some task description (for up to 30 words the float product compares with
\* an integer overlap as the exact product does)
is_duplicate(proposal, existing_tasks) ==
    \E j \in 1..Len(existing_tasks) :
        LET proposal_words == word_set(proposal)
            task_words == word_set(existing_tasks[j])
            overlap == Cardinality(proposal_words \cap task_words)
        IN overlap * 10 > Cardinality(proposal_words) * 7

\* the words first..last in a row
Range(first, last) == [i \in 1..(last - first + 1) |-> first + i - 1]

\* descriptions of proposals: n distinct words, also with the first word
\* repeated in upper case
ProposalDescriptions ==
    {Range(1, n) : n \in 0..MaxTokens}
    \cup {<<1 + MaxTokens>> \o Range(1, n) : n \in 1..MaxTokens}

\* descriptions of pending tasks
TaskDescriptions ==
    {Range(1, k) : k \in 0..MaxTokens}
    \cup {Range(4, MaxTokens), <<1 + MaxTokens>> \o Range(2, 7)}

ExistingLists == UNION {[1..n -> TaskDescriptions] : n \in 0..MaxExisting}

InitDuplicate ==
    /\ InitCall
    /\ \E proposal \in ProposalDescriptions, existing_tasks \in ExistingLists :
          call = [op |-> "is_duplicate",
                  args |-> [proposal |-> proposal, existing_tasks |-> existing_tasks],
                  ret |-> FALSE, done |-> FALSE]

\* the call returns
IsDuplicate ==
    /\ call.op = "is_duplicate"
    /\ ~call.done
    /\ call' = [call EXCEPT !.ret = is_duplicate(call.args.proposal,
                                                 call.args.existing_tasks),
                            !.done = TRUE]
    /\ UNCHANGED <<inbox, active, completed, blocked, histfile, budgetFile, b, pc, task,
                   history, cycle_num, cycles_run, cur, pend, result, nact, ncycles,
                   crashes, saved_for, env, running, shutdown_events, events, clock,
                   created, task_minutes, other>>

SpecDuplicate == InitDuplicate /\ [][IsDuplicate]_vars

\* ------------------------------------------- cycle state serialization
\* objects and JSON values carry their class: "dict" is a JSON object, None
\* is the JSON null, Unserializable is the exception of a to_dict call
None == [class |-> "None"]
Unserializable == [class |-> "raised"]

\* Action.to_dict / Action.from_dict
Action_to_dict(a) ==
    IF a.class # "Action" THEN Unserializable
    ELSE [class |-> "dict", action_type |-> a.action_type]

Action_from_dict(data) == [class |-> "Action", action_type |-> data.action_type]

\* Observation.to_dict: output[:2000]; the output is given by its length
Observation_to_dict(o) ==
    [class |-> "dict", success |-> o.success,
     output |-> IF o.output > output_limit THEN output_limit ELSE o.output]

\* Observation(**data)
Observation_from_dict(data) ==
    [class |-> "Observation", success |-> data.success, output |-> data.output]

\* CuriosityProposal.to_dict / from_dict
CuriosityProposal_to_dict(p) ==
    [class |-> "dict", estimated_value |-> p.estimated_value, category |-> p.category]

CuriosityProposal_from_dict(data) ==
    [class |-> "CuriosityProposal", estimated_value |-> data.estimated_value,
     category |-> data.category]

\* Reflection.to_dict / from_dict
Reflection_to_dict(r) ==
    [class |-> "dict", progress_made |-> r.progress_made,
     proposed_tasks |-> [i \in 1..Len(r.proposed_tasks) |->
                            CuriosityProposal_to_dict(r.proposed_tasks[i])]]

Reflection_from_dict(data) ==
    [class |-> "Reflection", progress_made |-> data.progress_made,
     proposed_tasks |-> [i \in 1..Len(data.proposed_tasks) |->
                            CuriosityProposal_from_dict(data.proposed_tasks[i])]]

\* Plan.to_dict: self.next_action.to_dict() raises AttributeError when
\* next_action is not an Action
Plan_to_dict(p) ==
    IF Action_to_dict(p.next_action) = Unserializable THEN Unserializable
    ELSE [class |-> "dict", goal |-> p.goal, next_action |-> Action_to_dict(p.next_action)]

\* Plan(**data["plan"]): the fields are taken as they are in the JSON, the
\* next_action stays a dict
Plan_kwargs(data) ==
    [class |-> "Plan", goal |-> data.goal, next_action |-> data.next_action]

\* CycleState.to_dict
CycleState_to_dict(st) ==
    IF st.plan # None /\ Plan_to_dict(st.plan) = Unserializable THEN Unserializable
    ELSE [class |-> "dict", cycle_id |-> st.cycle_id, phase |-> st.phase,
          plan |-> IF st.plan # None THEN Plan_to_dict(st.plan) ELSE None,
          action |-> IF st.action # None THEN Action_to_dict(st.action) ELSE None,
          observation |-> IF st.observation # None
                          THEN Observation_to_dict(st.observation) ELSE None,
          reflection |-> IF st.reflection # None
                         THEN Reflection_to_dict(st.reflection) ELSE None,
          decision |-> st.decision]

\* CycleState.from_dict
CycleState_from_dict(data) ==
    [class |-> "CycleState", cycle_id |-> data.cycle_id, phase |-> data.phase,
     plan |-> IF data.plan # None THEN Plan_kwargs(data.plan) ELSE None,
     action |-> IF data.action # None THEN Action_from_dict(data.action) ELSE None,
     observation |-> IF data.observation # None
                     THEN Observation_from_dict(data.observation) ELSE None,
     reflection |-> IF data.reflection # None
                    THEN Reflection_from_dict(data.reflection) ELSE None,
     decision |-> data.decision]

\* the cycle states written and read
CycleStates ==
    LET Actions == {[class |-> "Action", action_type |-> t] :
                       t \in {"execute_command", "complete_task"}}
        Plans == {[class |-> "Plan", goal |-> "goal", next_action |-> a] : a \in Actions}
        Observations == {[class |-> "Observation", success |-> ok, output |-> n] :
                            ok \in BOOLEAN, n \in {0, output_limit, output_limit + 1}}
        Proposals == {[class |-> "CuriosityProposal", estimated_value |-> 9,
                       category |-> c] : c \in {"verification", "general"}}
        Reflections == {[class |-> "Reflection", progress_made |-> pm,
                         proposed_tasks |-> ps] :
                           pm \in BOOLEAN, ps \in {<<>>} \cup {<<x>> : x \in Proposals}}
    IN {[class |-> "CycleState", cycle_id |-> 1, phase |-> ph, plan |-> pl, action |-> a,
         observation |-> o, reflection |-> r, decision |-> d] :
           ph \in {"plan", "decide"}, pl \in Plans \cup {None}, a \in Actions \cup {None},
           o \in Observations \cup {None}, r \in Reflections \cup {None},
           d \in {"continue", "complete"}}

InitRoundTrip ==
    /\ InitCall
    /\ \E st \in CycleStates :
          call = [op |-> "to_dict", args |-> st,
                  ret |-> [json |-> None, state |-> None, json_again |-> None],
                  done |-> FALSE]

\* json.dumps(state.to_dict()), as append_cycle writes it
ToDict ==
    /\ call.op = "to_dict"
    /\ call' = [call EXCEPT !.ret.json = CycleState_to_dict(call.args),
                            !.op = "from_dict"]
    /\ UNCHANGED <<inbox, active, completed, blocked, histfile, budgetFile, b, pc, task,
                   history, cycle_num, cycles_run, cur, pend, result, nact, ncycles,
                   crashes, saved_for, env, running, shutdown_events, events, clock,
                   created, task_minutes, other>>

\* CycleState.from_dict(json.loads(line)), as load_history reads it
FromDict ==
    /\ call.op = "from_dict"
    /\ call' = [call EXCEPT !.ret.state = CycleState_from_dict(call.ret.json),
                            !.op = "to_dict again"]
    /\ UNCHANGED <<inbox, active, completed, blocked, histfile, budgetFile, b, pc, task,
                   history, cycle_num, cycles_run, cur, pend, result, nact, ncycles,
                   crashes, saved_for, env, running, shutdown_events, events, clock,
                   created, task_minutes, other>>

\* the state read back is serialized again
ToDictAgain ==
    /\ call.op = "to_dict again"
    /\ ~call.done
    /\ call' = [call EXCEPT !.ret.json_again = CycleState_to_dict(call.ret.state),
                            !.done = TRUE]
    /\ UNCHANGED <<inbox, active, completed, blocked, histfile, budgetFile, b, pc, task,
                   history, cycle_num, cycles_run, cur, pend, result, nact, ncycles,
                   crashes, saved_for, env, running, shutdown_events, events, clock,
                   created, task_minutes, other>>

NextRoundTrip == ToDict \/ FromDict \/ ToDictAgain

SpecRoundTrip == InitRoundTrip /\ [][NextRoundTrip]_vars

\* the runs of run() with a shutdown signal and several cycles per tick
NextSignal == Next \/ Signal \/ RunExit

SpecSignal == InitTick /\ [][NextSignal]_vars

\* ------------------------------------------------------ a second process
\* POST /tasks/tick and POST /control/tick (web/app.py run_tick, control_tick)
\* build an Agent in the web process and call its tick() on the same agent
\* home, with no lock against the run() loop of the agent process. The
\* scheduler lets the other process take the next steps: the local state of
\* the two processes is exchanged, the files stay as they are. A web request
\* that starts a tick builds a new Agent, with a new ledger
Switch ==
    /\ other.switches < MaxSwitches
    /\ pc # "exited"
    /\ other' = [who |-> IF other.who = "web" THEN "agent" ELSE "web",
                 switches |-> other.switches + 1, b |-> b, pc |-> pc, task |-> task,
                 history |-> history, cycle_num |-> cycle_num,
                 cycles_run |-> cycles_run, cur |-> cur, pend |-> pend,
                 result |-> result, events |-> events]
    /\ b' = IF other.who = "web" /\ other.pc = "idle"
            THEN FreshBudgets(env.limits) ELSE other.b
    /\ pc' = other.pc
    /\ task' = other.task
    /\ history' = other.history
    /\ cycle_num' = other.cycle_num
    /\ cycles_run' = other.cycles_run
    /\ cur' = other.cur
    /\ pend' = other.pend
    /\ result' = other.result
    /\ events' = other.events
    /\ UNCHANGED <<inbox, active, completed, blocked, histfile, budgetFile, nact,
                   ncycles, crashes, saved_for, env, running, shutdown_events, clock,
                   created, task_minutes, call>>

\* the runs with the agent process and ticks of the web process
NextConcurrent == Next \/ TickResume \/ Switch

InitConcurrent ==
    /\ InitFiles
    /\ \A i \in 1..2 : inbox[i].priority = "high" /\ inbox[i].desc = "text"
    /\ env \in CrashEnvironments
    /\ b = FreshBudgets(env.limits)

SpecConcurrent == InitConcurrent /\ [][NextConcurrent]_vars

\* the runs in which the web application serves requests next to the agent
NextWeb == Next \/ WebCreateTask \/ WebClearTasks

SpecWeb == InitCrash /\ [][NextWeb]_vars

\* ================================================================ properties
\* the parseable lines of a task's log written since its latest activation
ActivationCycles(t) ==
    SelectSeq(load_history(histfile[t]), LAMBDA l : l.activation = nact[t])

AllContinue(h) == \A i \in 1..Len(h) : h[i].state.decision = "continue"

Terminal(d) == d \in {"complete", "blocked", "ask_user", "budget_exceeded"}

RECURSIVE TrailingFailures(_)
\* length of the run of failing cycles at the end of h
TrailingFailures(h) ==
    IF h = <<>> THEN 0
    ELSE IF had_failure(h[Len(h)].state)
         THEN 1 + TrailingFailures(SubSeq(h, 1, Len(h) - 1))
         ELSE 0

\* number of places of the task store that hold task t
Places(t) ==
    Len(SelectSeq(get_pending_tasks(inbox), LAMBDA r : r.task_id = t))
    + (IF active.task_id = t THEN 1 ELSE 0)
    + (IF t \in completed THEN 1 ELSE 0)
    + (IF t \in blocked THEN 1 ELSE 0)

PersistedIterations == IF budgetFile = <<>> THEN 0 ELSE budgetFile[1].task_iterations

\* ---- C1
\* C1: at most one task is active. active.md holds one block, and every change
\* of active.md either puts a task into an empty active.md (activation) or
\* empties it (complete_task, block_task, pause_task): a task is never
\* activated over another active task, also when a tick finds an active task
\* and pending ones after a restart.
C1_SingleActive ==
    [][ (active' # active) => (active = NoTask \/ active' = NoTask) ]_vars

\* a tick of a restarted process resumed the active task while another was pending
C1_Witness ==
    /\ pc = "loop" /\ crashes > 0 /\ b.task_age = -1
    /\ active = task /\ active # NoTask
    /\ inbox # <<>>

\* ---- C2
\* C2: the cycle_ids stored in a task's history file are 1..n in order, with no
\* gap and no duplicate, whatever happened in between (pause and re-activation,
\* restart, lines that fail to parse).
C2_CycleIdsContiguous ==
    \A t \in Tasks :
        LET h == load_history(histfile[t])
        IN  \A i \in 1..Len(h) : h[i].state.cycle_id = i

\* ---- C3
\* C3 as stated: a tick on a freshly activated task whose every cycle decides
\* CONTINUE commits exactly max_iterations_per_task cycles and returns
\* budget_exceeded.
C3_ExactlyMaxIterations ==
    (pc = "clearing" /\ AllContinue(ActivationCycles(task.task_id)))
    => /\ Len(ActivationCycles(task.task_id)) = max_iterations_per_task
       /\ pend.decision = "budget_exceeded"

\* C3 amended: an activation never commits more than max_iterations_per_task
\* cycles; when the loop itself stops the task (budget or stuck), every cycle
\* of the activation decided CONTINUE, no cycle is in flight, and the stop is
\* the iteration limit exactly when max_iterations_per_task cycles were
\* committed -- the failure, no-progress and time budgets and the stuck
\* detector stop it after fewer.
C3_IterationBudget ==
    /\ \A t \in Tasks : Len(ActivationCycles(t)) <= max_iterations_per_task
    /\ (pc = "clearing" /\ pend.decision \in {"budget_exceeded", "stuck"})
       => /\ AllContinue(ActivationCycles(task.task_id))
          /\ cur = <<>>
          /\ (pend.decision = "budget_exceeded" /\ pend.message = "iterations")
             <=> (Len(ActivationCycles(task.task_id)) = max_iterations_per_task)

\* the iteration limit stopped a task after max_iterations_per_task cycles
C3_Witness ==
    /\ pc = "clearing"
    /\ pend = [decision |-> "budget_exceeded", message |-> "iterations"]
    /\ Len(ActivationCycles(task.task_id)) = max_iterations_per_task

\* ---- C4
\* C4: once check_can_continue() is false at the top of the loop, the next step
\* of the tick is the pause of the task with decision budget_exceeded, and the
\* tick then returns: no cycle is run, nothing is appended to the history and
\* the ledger is not written.
C4_NoCycleAfterRejection ==
    [][ /\ (pc = "loop" /\ check_can_continue(b) # "")
           => /\ pc' = "clearing"
              /\ pend'.decision = "budget_exceeded"
              /\ inbox' = Append(inbox, paused_content(task))
              /\ histfile' = histfile /\ budgetFile' = budgetFile
              /\ ncycles' = ncycles /\ cur' = cur
        /\ (pc = "clearing")
           => /\ pc' = "idle" /\ active' = NoTask
              /\ histfile' = histfile /\ budgetFile' = budgetFile
              /\ ncycles' = ncycles /\ cur' = cur ]_vars

\* a tick returned budget_exceeded after running cycles
C4_Witness ==
    /\ pc = "idle" /\ result.decision = "budget_exceeded"
    /\ result.cycles_run > 1

\* ---- C5
\* C5: a committed cycle with a terminal decision is the last cycle of its
\* activation: the next line of the task's log, if any, belongs to a later
\* activation, the loop never iterates after it, and when the tick has
\* returned the task is no longer the active task.
C5_TerminalEndsActivation ==
    /\ \A t \in Tasks :
          LET h == load_history(histfile[t])
          IN  \A i \in 1..(Len(h) - 1) :
                 Terminal(h[i].state.decision) => h[i + 1].activation > h[i].activation
    /\ (pc \in {"loop", "append"} /\ ActivationCycles(task.task_id) # <<>>)
       => LET a == ActivationCycles(task.task_id)
          IN  ~Terminal(a[Len(a)].state.decision)
    /\ pc = "idle"
       => \A t \in Tasks :
             LET a == ActivationCycles(t)
             IN  (a # <<>> /\ Terminal(a[Len(a)].state.decision)) => active.task_id # t

\* a task was re-activated and ran a cycle after a cycle with a terminal decision
C5_Witness ==
    \E t \in Tasks :
        LET h == load_history(histfile[t])
        IN  \E i \in 1..(Len(h) - 1) : Terminal(h[i].state.decision)

\* ---- C6
\* C6: whenever tick() has returned, every task is in exactly one place: one
\* block of inbox.md, or active.md, or a report in completed/, or one in
\* blocked/.
C6_Partition ==
    pc = "idle" => \A t \in Tasks : Places(t) = 1

\* ---- C7
\* C7: the commit of a cycle is atomic with respect to kills: when the process
\* has stopped with a task active, the last line of the task's log has the
\* ledger save that counts it, and the persisted iteration counter is the
\* number of cycles committed since the activation.
C7_AtomicCommit ==
    (pc = "idle" /\ active # NoTask)
    => LET a == ActivationCycles(active.task_id)
       IN  /\ a # <<>> => saved_for = <<active.task_id, a[Len(a)].state.cycle_id>>
           /\ PersistedIterations = Len(a)

\* ---- C8
\* C8: when the process was killed after k cycles of the active task were
\* committed and the ledger saved, the next tick resumes the same task without
\* activating it again, has iterations = k after load_state, and numbers the
\* next cycle k + 1.
C8_CrashRecovery ==
    [][ (/\ pc = "idle" /\ pc' = "loop"
         /\ ActivationCycles(active.task_id) # <<>>
         /\ LET a == ActivationCycles(active.task_id)
            IN  saved_for = <<active.task_id, a[Len(a)].state.cycle_id>>)
        => LET a == ActivationCycles(active.task_id)
           IN  /\ task' = active /\ active' = active /\ nact' = nact
               /\ b'.current_task_iterations = Len(a)
               /\ cycle_num' = a[Len(a)].state.cycle_id ]_vars

\* ---- C9
\* C9: a cycle in which the LM call raised is counted as a failure without
\* progress and the loop goes on (decision CONTINUE); a task is never put in
\* blocked/ by such a cycle.
C9_LmFailureContinues ==
    /\ (pc = "decision" /\ cur[1].state.obs = "fail_exc")
       => /\ cur[1].state.decision = "continue"
          /\ ~made_progress(cur[1].state)
    /\ \A t \in blocked :
          LET h == load_history(histfile[t])
          IN  h # <<>> => h[Len(h)].state.obs # "fail_exc"

\* ---- C10
\* C10: at the top of the loop the failure counter is the length of the run of
\* failing cycles that ends the current activation (one cycle without failure
\* brings it to 0); when that run has max_consecutive_failures cycles the
\* budget check is false, and the loop then pauses the task as budget_exceeded,
\* not as stuck.
C10_ConsecutiveFailures ==
    /\ pc = "loop"
       => LET f == TrailingFailures(ActivationCycles(task.task_id))
          IN  /\ b.current_task_failures = f
              /\ f >= max_consecutive_failures => check_can_continue(b) # ""
    /\ (/\ pc = "clearing" /\ pend.decision \in {"budget_exceeded", "stuck"}
        /\ TrailingFailures(ActivationCycles(task.task_id)) >= max_consecutive_failures)
       => pend.decision = "budget_exceeded"

\* max_consecutive_failures failing cycles in a row paused the task
C10_Witness ==
    /\ pc = "clearing"
    /\ pend = [decision |-> "budget_exceeded", message |-> "failures"]
    /\ TrailingFailures(ActivationCycles(task.task_id)) = max_consecutive_failures

\* ---- C11
\* C11: on no day are more than max_curiosity_tasks_per_day tasks of origin
\* curiosity created, over any ticks, cycles and terminal decisions of the day.
C11_DailyCuriosityBudget ==
    \A d \in 0..MaxDay : created[d] <= max_curiosity_tasks_per_day

\* ---- C12
\* the task blocks the store can read back: the pending ones and the active one
StoredTasks ==
    {get_pending_tasks(inbox)[i] : i \in 1..Len(get_pending_tasks(inbox))}
    \cup (IF get_active_task(active) = NoTask THEN {} ELSE {get_active_task(active)})

\* C12: every task of origin curiosity read back from the store has a
\* curiosity_depth of at least 1 and at most max_curiosity_depth, one more
\* than its parent's: the child of a user task (depth 0) has depth 1.
C12_CuriosityDepth ==
    \A C \in StoredTasks :
        C.origin = "curiosity"
        => /\ curiosity_depth(C) >= 1
           /\ curiosity_depth(C) <= max_curiosity_depth
           /\ C.parent_task \in Tasks => curiosity_depth(C) = 1

\* ---- C13
\* C13: two tasks created by create_task with a generated id have different
\* ids: no two blocks of inbox.md that create_task wrote for origin curiosity
\* carry the same task_id.
C13_GeneratedIdsDistinct ==
    \A i, j \in 1..Len(inbox) :
        (i # j /\ inbox[i].origin = "curiosity" /\ inbox[j].origin = "curiosity")
        => inbox[i].task_id # inbox[j].task_id

\* ---- C14
\* the counters of the in-memory ledger
Counters(bb) == <<bb.current_task_iterations, bb.current_task_failures,
                  bb.actions_without_progress, bb.curiosity_tasks_today,
                  bb.curiosity_tasks_date>>

C19_ParseFallback ==
    (pc = "decision" /\ cur[1].state.action = "fallback" /\ cur[1].state.phase = "decide"
     /\ cur[1].state.cycle_id = 1)
    => /\ cur[1].state.obs = "ok"
       /\ ~made_progress(cur[1].state)
       /\ b.current_task_failures = 1
       /\ active = task

\* ---- C20
\* C20 as stated: a tick with an empty inbox and no active task changes no
\* task file, cycle log or budget file, runs no cycle, emits no event, and
\* returns a successful result with no task processed.
C20_IdleTickSucceeds ==
    [][ (pc = "idle" /\ get_active_task(active) = NoTask
         /\ get_pending_tasks(inbox) = <<>>)
        => /\ UNCHANGED <<inbox, active, completed, blocked, histfile, budgetFile>>
           /\ ncycles' = ncycles /\ events' = 0 /\ pc' = "idle"
           /\ result'.task_processed = 0 /\ result'.cycles_run = 0
           /\ result'.success ]_vars

\* C20 amended: such a tick changes no task file, cycle log or budget file,
\* runs no cycle, emits no event and processes no task; its result is
\* successful ("No pending tasks") when the pre-flight check passed and
\* unsuccessful ("Pre-flight checks failed") when it did not.
C20_IdleTick ==
    [][ (pc = "idle" /\ get_active_task(active) = NoTask
         /\ get_pending_tasks(inbox) = <<>>)
        => /\ UNCHANGED <<inbox, active, completed, blocked, histfile, budgetFile>>
           /\ ncycles' = ncycles /\ events' = 0 /\ pc' = "idle"
           /\ result'.task_processed = 0 /\ result'.cycles_run = 0
           /\ result'.decision = "none"
           /\ result'.success <=> result'.message = "No pending tasks"
           /\ ~result'.success <=> result'.message = "Pre-flight checks failed" ]_vars

\* an idle tick returned after the tasks were worked off
C20_Witness ==
    /\ pc = "idle" /\ result = NoResult /\ events = 0
    /\ active = NoTask /\ inbox = <<>>
    /\ completed # {} /\ budgetFile # <<>>

\* ---- C17
\* every cycle of the current activation failed in the executor without progress
AllFailNoProgress(h) ==
    \A i \in 1..Len(h) : h[i].state.obs = "fail_exec" /\ h[i].state.progress = "no"

\* C17: with the default limits, a task whose every cycle fails with the same
\* executor error and progress_made = false is stopped by the stuck detector:
\* when the loop stops it, exactly 3 cycles are committed and the decision is
\* stuck for the repeated error, not budget_exceeded.
C17_RepeatedErrorStuck ==
    (/\ pc = "clearing" /\ pend.decision \in {"budget_exceeded", "stuck"}
     /\ nact[task.task_id] = 1
     /\ ActivationCycles(task.task_id) # <<>>
     /\ AllFailNoProgress(ActivationCycles(task.task_id)))
    => /\ Len(ActivationCycles(task.task_id)) = 3
       /\ pend.decision = "stuck"
       /\ pend.message = "same_error"

\* ---- C18
\* the first four cycles of h took the actions A, B, A, B with A # B
StartsABAB(h) ==
    /\ Len(h) >= 4
    /\ h[1].state.action = h[3].state.action
    /\ h[2].state.action = h[4].state.action
    /\ h[1].state.action # h[2].state.action

\* C18: when the first four committed cycles of a task took the actions
\* A, B, A, B, the stuck check before the fifth cycle answers stuck for
\* oscillation, and a fifth cycle is never run.
C18_OscillationStuck ==
    (task # NoTask /\ nact[task.task_id] = 1 /\ StartsABAB(history))
    => /\ Len(history) = 4
       /\ pc = "loop" => StuckVerdict = "oscillation"
       /\ pc # "append"

\* ---- C15
\* C15: when appending to the cycle log or saving budgets.json fails, tick()
\* returns a TickResult with success = false -- it does not raise, and run()
\* goes on -- and the task is still the active task.
C15_WriteFailureReturns ==
    [][ (AppendFails \/ SaveFails)
        => /\ pc' = "idle"
           /\ result' # Raised /\ ~result'.success
           /\ shutdown_events' = shutdown_events
           /\ active' = task ]_vars

\* ---- C16
\* number of lines of all cycle logs
LoggedCycles == SumOver([t \in TaskIds |-> Len(histfile[t])], TaskIds)

\* C16: once the shutdown flag is set the process ends: it logs exactly one
\* shutdown event and exits; and it never exits inside the commit of a cycle:
\* at the exit no cycle is in flight, every cycle that was started has its
\* line in the log, and the last line has the ledger save that counts it.
C16_GracefulShutdown ==
    /\ [](shutdown_events <= 1)
    /\ [](pc = "exited"
           => /\ shutdown_events = 1
              /\ cur = <<>>
              /\ LoggedCycles = ncycles
              /\ ncycles > 0
                 => /\ saved_for[1] \in TaskIds
                    /\ LET h == histfile[saved_for[1]]
                       IN  h # <<>> /\ h[Len(h)].state.cycle_id = saved_for[2])
    /\ (~running ~> pc = "exited")

\* the flag was set, the tick that processed a task returned, and the
\* process has exited
C16_Witness ==
    /\ pc = "exited" /\ ~running
    /\ ncycles > 0 /\ result.task_processed # 0
    /\ active = NoTask

\* C21: only the Agent Loop writes inbox.md, active.md, the completed and
\* blocked records and runtime/budgets.json: every step of the web layer
\* leaves these files as they were
C21_WebLeavesTaskFiles ==
    [][(WebCreateTask \/ WebClearTasks) =>
          UNCHANGED <<inbox, active, completed, blocked, budgetFile>>]_vars

TickRunning == pc \notin {"idle", "exited"}
TickReturned == pc \in {"idle", "exited"}

C23_PausedStaysStopped ==
    [][TickActivate => task'.notes = 0]_vars

\* ---- C24
\* C24: when the planned action is complete_task, block_task or ask_user,
\* run() returns COMPLETE, BLOCKED or ASK_USER respectively from the PLAN
\* phase: the returned state has no observation and no reflection, the
\* executor was not called and the LM was called exactly once in the cycle
C24_TerminalPlanAction ==
    \A i \in 1..Len(cur) :
        cur[i].state.action \in {"complete_task", "block_task", "ask_user"}
        => /\ cur[i].state.decision =
                 (CASE cur[i].state.action = "complete_task" -> "complete"
                    [] cur[i].state.action = "block_task" -> "blocked"
                    [] cur[i].state.action = "ask_user" -> "ask_user")
           /\ cur[i].state.phase = "plan"
           /\ cur[i].state.obs = "none"
           /\ cur[i].state.progress = "none"
           /\ cur[i].executor_calls = 0
           /\ cur[i].lm_calls = 1

\* run() has just returned for a plan that asks the user
C24_Witness ==
    /\ pc = "append"
    /\ cur # <<>>
    /\ cur[1].state.action = "ask_user"
    /\ cur[1].state.decision = "ask_user"

\* ---- C25
\* the token of {CONTINUE, COMPLETE, BLOCKED, ASK_USER} that occurs first in a
\* DECIDE response text, as a decision; CONTINUE when none occurs
FirstToken(text) ==
    IF tokens(text) = <<>> THEN "continue"
    ELSE CASE tokens(text)[1] = "COMPLETE" -> "complete"
           [] tokens(text)[1] = "BLOCKED" -> "blocked"
           [] tokens(text)[1] = "ASK_USER" -> "ask_user"
           [] OTHER -> "continue"

\* C25: for every DECIDE response text, the decision of the cycle is the
\* token that occurs first in the text, and CONTINUE when none occurs
C25_FirstTokenWins ==
    \A i \in 1..Len(cur) :
        cur[i].state.phase = "decide"
        => \A text \in env.decide : cur[i].state.decision = FirstToken(text)

\* ---- C26
\* the cycle log of the active task holds no line of its current activation
NoCycleYet ==
    \A i \in 1..Len(histfile[task.task_id]) :
        histfile[task.task_id][i].activation # nact[task.task_id]

\* C26: a tick that finds an active task works on it, whatever is pending;
\* otherwise the task it activates has the minimal (priority rank, deadline or
\* max) among the pending tasks; and iterations, failures and the no-progress
\* count are zero when the first cycle of an activated task starts
C26_TickSelection ==
    /\ [][(pc = "idle" /\ active # NoTask /\ pc' # "idle")
             => (task' = active /\ pc' = "loop" /\ UNCHANGED <<inbox, active>>)]_vars
    /\ [][TickActivate
             => \A i \in 1..Len(get_pending_tasks(inbox)) :
                    key_le(task', get_pending_tasks(inbox)[i])]_vars
    /\ [][(RunCycle /\ NoCycleYet)
             => /\ b.current_task_iterations = 0
                /\ b.current_task_failures = 0
                /\ b.actions_without_progress = 0]_vars

\* ---- C27
\* C27: in every ledger state the loop checks, one loaded after a restart
\* included, check_can_continue() is false exactly when iterations >=
\* max_iterations_per_task, or consecutive failures >=
\* max_consecutive_failures, or actions without progress >=
\* max_actions_without_progress, or the time since the task was started
\* exceeds max_task_duration_minutes
C27_CheckCanContinueExact ==
    pc = "loop"
    => ((check_can_continue(b) # "")
        <=> \/ b.current_task_iterations >= b.limits.max_iterations_per_task
            \/ b.current_task_failures >= b.limits.max_consecutive_failures
            \/ b.actions_without_progress >= b.limits.max_actions_without_progress
            \/ task_minutes > b.limits.max_task_duration_minutes)

\* ---- C28
\* the last n cycles of h took one and the same action (type and payload)
LastActionsSame(h, n) ==
    /\ Len(h) >= n
    /\ \A i \in 1..n : /\ LastN(h, n)[i].state.action # "none"
                       /\ LastN(h, n)[i].state.action = LastN(h, n)[1].state.action

\* C28: for every history of at least 3 cycles whose last 3 actions are the
\* same, is_stuck answers stuck, so that the loop pauses the task and no
\* history ever ends in four identical actions
C28_SameActionStuck ==
    /\ (pc = "loop" /\ LastActionsSame(history, 3)) => is_stuck(history) # ""
    /\ ~LastActionsSame(history, 4)

\* ---- C29
\* C29: saving the ledger and loading it again restores every counter of the
\* data model (iterations, consecutive failures, actions without progress,
\* task_started_at, curiosity_tasks_today and its date), and the values saved
\* after a cycle include every change of that cycle: once the cycle is
\* processed, a new process that loads budgets.json has the ledger of this one
C29_SaveLoadRoundTrip ==
    pc = "decision" => load_state(FreshBudgets(env.limits), budgetFile) = b

\* ---- C30
\* the cycle log of the task in active.md holds no line of its current
\* activation: the process stopped before its first cycle was committed
ActiveHasNoCycle ==
    \A i \in 1..Len(histfile[active.task_id]) :
        histfile[active.task_id][i].activation # nact[active.task_id]

\* C30: the counters a restarted process loads for the active task are that
\* task's own: when the process stopped after the activation and before the
\* first cycle of the task was committed, the tick that resumes the task
\* starts it with zero iterations, failures and actions without progress
C30_ResumedCountersOwn ==
    [][(TickResume /\ ActiveHasNoCycle)
          => /\ b'.current_task_iterations = 0
             /\ b'.current_task_failures = 0
             /\ b'.actions_without_progress = 0]_vars

\* ---- C31
\* C31: with a tick of the web process running at the same time as a tick of
\* the agent process on one agent home, the invariants still hold: the two
\* processes never work on different tasks (at most one task is active), no
\* task is activated while the other process is working on it, and no two
\* lines of one task's cycle log carry the same cycle_id
C31_ConcurrentTicks ==
    /\ (pc \in {"loop", "append", "save", "decision"}
        /\ other.pc \in {"loop", "append", "save", "decision"})
       => (task = other.task /\ active = task)
    /\ (pc = "activating" /\ other.pc \in {"loop", "append", "save", "decision"})
       => task.task_id # other.task.task_id
    /\ \A t \in Tasks : \A i, j \in 1..Len(histfile[t]) :
          (i # j /\ histfile[t][i].line = "ok" /\ histfile[t][j].line = "ok")
          => histfile[t][i].state.cycle_id # histfile[t][j].state.cycle_id

\* ---- C32
\* C32: once the shutdown flag is set while a tick is running cycles, no new
\* cycle is started: the loop checks the flag at each cycle boundary, so every
\* cycle starts with the flag still up
C32_NoCycleAfterShutdownFlag ==
    [][RunCycle => running]_vars

\* ---- C33
\* C33: when appending an event to the event log fails during a tick, the
\* tick is terminated with a failure result: it runs no further cycle and
\* makes no task transition with the event missing
C33_EventFailureEndsTick ==
    [][LogEventFails => (pc' \in {"idle", "exited"} /\ result'.success = FALSE)]_vars

\* C34: every call of Executor.execute returns a result and does not raise,
\* whatever the outcome of the command (normal exit, timeout, missing
\* executable, other spawn error); it appends exactly one command_execution
\* event, which carries the returned exit code and duration; timed_out is set
\* exactly for the timeout, whose exit code is -1, and a missing executable
\* gives exit code 127
C34_ExecuteReturnsAndLogsOnce ==
    \A i \in 1..Len(cur) :
        cur[i].executor_calls = 1 =>
            LET x == cur[i].execution IN
            /\ x.outcome \in ExecOutcomes
            /\ ~x.raised
            /\ Len(x.logged) = 1
            /\ x.logged[1].event_type = "command_execution"
            /\ x.logged[1].exit_code = x.exit_code
            /\ x.logged[1].duration_ms = x.duration_ms
            /\ x.timed_out <=> x.outcome = "timeout"
            /\ x.timed_out => x.exit_code = -1
            /\ x.outcome = "not_found" => x.exit_code = 127

\* a cycle whose command timed out, one whose executable is missing and one
\* whose spawn failed otherwise have all been run
C34_Witness ==
    /\ pc = "append"
    /\ Len(cur) = 1
    /\ cur[1].execution.outcome = "spawn_error"
    /\ \E i, j \in 1..Len(histfile[task.task_id]) :
          /\ histfile[task.task_id][i].execution.outcome = "timeout"
          /\ histfile[task.task_id][j].execution.outcome = "not_found"

\* C35: when pause_task(task, reason) has finished, active.md is empty and the
\* task is exactly once in pending(), with the task_id, priority, origin,
\* parent_task_id and curiosity_depth it had, and with one more pause note (the
\* reason) in its inbox record; also when the task is paused again later
C35_PauseKeepsTask ==
    [][(ClearActive /\ pend.decision \in {"ask_user", "budget_exceeded", "stuck"})
       => /\ active' = NoTask
          /\ LET found == SelectSeq(get_pending_tasks(inbox'),
                                    LAMBDA r : r.task_id = task.task_id)
             IN /\ Len(found) = 1
                /\ found[1].priority = task.priority
                /\ found[1].origin = task.origin
                /\ found[1].parent_task = task.parent_task
                /\ curiosity_depth(found[1]) = curiosity_depth(task)
                /\ found[1].notes = task.notes + 1]_vars

\* C36: evaluate_proposals returns proposals of its input, each once, that have
\* estimated_value >= min_value_threshold, an allowed category, a
\* justification of at least 10 and a description of at least 20 characters;
\* the result is sorted by estimated_value descending, holds
\* max_proposals_per_cycle proposals or all that qualify if these are fewer,
\* and no qualifying proposal left out has a higher value than a returned one
C36_EvaluateProposals ==
    (call.op = "evaluate_proposals" /\ call.done) =>
        LET input == call.args
            out == call.ret
            qualifies(p) == /\ p.estimated_value >= min_value_threshold
                            /\ p.category \in {"verification", "documentation",
                                                "robustness", "exploration"}
                            /\ p.justification >= 10
                            /\ p.description >= 20
            qualifying == {i \in 1..Len(input) : qualifies(input[i])}
        IN /\ \A k \in 1..Len(out) :
                 /\ out[k].id \in qualifying
                 /\ out[k] = input[out[k].id]
           /\ \A k, l \in 1..Len(out) : k # l => out[k].id # out[l].id
           /\ \A k \in 1..(Len(out) - 1) :
                 out[k].estimated_value >= out[k + 1].estimated_value
           /\ Len(out) = IF Cardinality(qualifying) < max_proposals_per_cycle
                         THEN Cardinality(qualifying) ELSE max_proposals_per_cycle
           /\ \A i \in qualifying :
                 (\A k \in 1..Len(out) : out[k].id # i)
                 => \A k \in 1..Len(out) :
                       out[k].estimated_value >= input[i].estimated_value

\* a call with three qualifying proposals in ascending order of value and
\* has returned the two best, the best first
C36_Witness ==
    /\ call.op = "evaluate_proposals"
    /\ call.done
    /\ Len(call.args) = 3
    /\ \A i \in 1..3 : passes_checks(call.args[i])
    /\ call.args[1].estimated_value < call.args[2].estimated_value
    /\ call.args[2].estimated_value < call.args[3].estimated_value
    /\ Len(call.ret) = 2
    /\ call.ret[1].id = 3
    /\ call.ret[2].id = 2

\* C37: is_duplicate(proposal, existing) is true exactly when some existing
\* description holds at least 70% of the distinct words of the proposal; a
\* proposal with exactly 70% of its words in a description is a duplicate
C37_DuplicateAtSeventyPercent ==
    (call.op = "is_duplicate" /\ call.done) =>
        LET P == {lower(call.args.proposal[i]) : i \in 1..Len(call.args.proposal)}
            D(j) == {lower(call.args.existing_tasks[j][i]) :
                        i \in 1..Len(call.args.existing_tasks[j])}
        IN call.ret <=> \E j \in 1..Len(call.args.existing_tasks) :
                            10 * Cardinality(P \cap D(j)) >= 7 * Cardinality(P)

\* C38: a CycleState written with to_dict and read back with from_dict equals
\* the original in every field (plan with its next_action, action,
\* observation, reflection with its proposals, decision, phase), and the state
\* read back serializes again to the same JSON
C38_RoundTrip ==
    /\ call.op = "to_dict again" => call.ret.state = call.args
    /\ (call.op = "to_dict again" /\ call.done)
       => (call.ret.json_again # Unserializable /\ call.ret.json_again = call.ret.json)

\* C39: when a tick that processed a task returns, cycles_run of its
\* TickResult is the number of cycle states the tick appended to the cycle log
\* of the task (the lines of the task's current activation), whether the tick
\* ends with COMPLETE, BLOCKED, ASK_USER, an exceeded budget or a stuck verdict
C39_CyclesRunCountsAppended ==
    [][ClearActive
       => result'.cycles_run =
             Cardinality({i \in 1..Len(histfile[task.task_id]) :
                             histfile[task.task_id][i].activation = nact[task.task_id]})]_vars

\* C40: while a task is active in the process (from the end of its activation
\* to the end of the tick), the counters of the ledger satisfy
\* 0 <= consecutive failures <= iterations, 0 <= actions without progress <=
\* iterations, and iterations <= max_iterations_per_task
C40_CounterBounds ==
    pc \in {"loop", "append", "save", "decision", "clearing"} =>
        /\ 0 <= b.current_task_failures
        /\ b.current_task_failures <= b.current_task_iterations
        /\ 0 <= b.actions_without_progress
        /\ b.actions_without_progress <= b.current_task_iterations
        /\ b.current_task_iterations <= b.limits.max_iterations_per_task

\* the task has used up its iterations, none of them made progress and the
\* last ones failed
C40_Witness ==
    /\ pc = "loop"
    /\ task # NoTask
    /\ b.current_task_iterations = b.limits.max_iterations_per_task
    /\ b.current_task_failures = b.limits.max_consecutive_failures
    /\ b.actions_without_progress = b.current_task_iterations

====
